---- MODULE Spec2Model ----
(***************************************************************************)
(* Code-graph indexer and query engine of codebasegpt: the SQLite store    *)
(* (graph.py), the per-file analyzers and the indexing run (indexer.py).   *)
(*                                                                         *)
(* A source file is a sequence of statements, one per line, each with its  *)
(* indentation depth: "def" and "class" lines open a block, "call" and     *)
(* "import" lines do not.  Line i of the sequence is source line i.        *)
(***************************************************************************)
EXTENDS Integers, Sequences, FiniteSets, TLC

VARIABLES committed, db, pc, tree, reset, todo, stats, ret

vars == <<committed, db, pc, tree, reset, todo, stats, ret>>

\* ---------------------------------------------------------------- bounds

\* Cap on the rows of the relations table (incremental runs append forever).
MaxRelations == 3

\* Largest limit handed to top_symbols.
MaxLimit == 2

\* Cap on the rows of the symbols table when clients call insert_symbol.
MaxSymbolRows == 3

\* Most pieces a question is put together from.
MaxFragments == 3

\* Most pieces of a question asked of the retriever.
MaxAsked == 2

\* ------------------------------------------------------------- constants

\* SQL NULL / Python None in an integer column (row ids and line numbers
\* start at 1).
Null == 0

\* Python None for a name; index_repository itself reads None as "".
NoName == ""

\* Every string of the model in ascending byte order (SQLite's BINARY
\* collation), so that ORDER BY on a text column can be computed.
Lexicon == <<"Cart", "a.py", "b.py", "calls", "cart.py", "class", "f",
            "function", "g", "imports", "inherits", "jwt.py", "m">>

StrRank(s) == CHOOSE i \in 1..Len(Lexicon) : Lexicon[i] = s

StrLess(a, b) == StrRank(a) < StrRank(b)

\* Ascending order of an INTEGER column: NULL sorts before every number.
IntLess(a, b) == a < b

Max(S) == CHOOSE x \in S : \A y \in S : y <= x

Min(S) == CHOOSE x \in S : \A y \in S : x <= y

\* ------------------------------------------------------------ file trees

Paths == {"a.py", "b.py"}

SUPPORTED_SUFFIXES == [s \in {".py", ".js", ".ts", ".rs", ".go"} |->
    CASE s = ".py" -> "python"
      [] s = ".js" -> "javascript"
      [] s = ".ts" -> "typescript"
      [] s = ".rs" -> "rust"
      [] s = ".go" -> "go"]

\* path.suffix
Suffix(path) ==
    CASE path \in {"a.py", "b.py", "cart.py", "jwt.py"} -> ".py"
      [] path = "c.js" -> ".js"
      [] path = "c.ts" -> ".ts"
      [] path = "c.rs" -> ".rs"
      [] path = "c.go" -> ".go"
      [] path = ".x.py" -> ".py"
      [] path = "b.txt" -> ".txt"
      [] OTHER -> ""

Line(kind, name, depth, base) == [kind |-> kind, name |-> name, depth |-> depth, base |-> base]

File(readable, lines) == [readable |-> readable, lines |-> lines]

\* The file contents a tree is built from:
\*  1  two functions named g, the first of which calls f
\*  2  class f(g) holding a method g that calls g, then an import
\*  3  a call at module scope
\*  4  a call at an unexpected indent (a syntax error)
\*  5  a file that cannot be read
SampleFiles == <<
    File(TRUE, <<Line("def", "g", 0, NoName), Line("call", "f", 1, NoName),
                 Line("def", "g", 0, NoName)>>),
    File(TRUE, <<Line("class", "f", 0, "g"), Line("def", "g", 1, NoName),
                 Line("call", "g", 2, NoName), Line("import", "m", 0, NoName)>>),
    File(TRUE, <<Line("call", "f", 0, NoName)>>),
    File(TRUE, <<Line("call", "f", 1, NoName)>>),
    File(FALSE, <<>>) >>

Contents == {SampleFiles[i] : i \in 1..Len(SampleFiles)}

\* A tree maps the source files present under the root to their contents.
Trees == UNION {[S -> Contents] : S \in SUBSET Paths}

\* ------------------------------------------------------------- analyzers

EmptyAnalyzer == [symbols |-> <<>>, relations |-> <<>>, stack |-> <<>>]

Symbol(name, kind, lineno) == [name |-> name, kind |-> kind, lineno |-> lineno]

Relation(dst, type, lineno, src) ==
    [dst_symbol_name |-> dst, relation_type |-> type, lineno |-> lineno,
     src_symbol_name |-> src]

\* PythonAnalyzer._current_symbol
CurrentSymbol(stack) == IF Len(stack) > 0 THEN stack[Len(stack)] ELSE NoName

\* One statement visited by PythonAnalyzer.  The visits of the blocks that
\* ended before this line have returned and popped their names, so the stack
\* holds one name per block still open: line.depth of them.
VisitLine(a, line, lineno) ==
    LET stack == SubSeq(a.stack, 1, line.depth) IN
    CASE line.kind = "def" ->
           [symbols |-> Append(a.symbols, Symbol(line.name, "function", lineno)),
            relations |-> a.relations,
            stack |-> Append(stack, line.name)]
      [] line.kind = "class" ->
           [symbols |-> Append(a.symbols, Symbol(line.name, "class", lineno)),
            relations |-> IF line.base # NoName
                          THEN Append(a.relations,
                                      Relation(line.base, "inherits", lineno, line.name))
                          ELSE a.relations,
            stack |-> Append(stack, line.name)]
      [] line.kind = "import" ->
           [symbols |-> a.symbols,
            relations |-> Append(a.relations,
                                 Relation(line.name, "imports", lineno, CurrentSymbol(stack))),
            stack |-> stack]
      [] line.kind = "call" ->
           [symbols |-> a.symbols,
            relations |-> Append(a.relations,
                                 Relation(line.name, "calls", lineno, CurrentSymbol(stack))),
            stack |-> stack]

RECURSIVE Visit(_, _, _)
\* PythonAnalyzer.visit over the lines from line i on.
Visit(a, lines, i) ==
    IF i > Len(lines) THEN a
    ELSE Visit(VisitLine(a, lines[i], i), lines, i + 1)

\* ast.parse succeeds: the first statement is not indented and a deeper
\* indent only follows a line that opens a block.
ParseOk(lines) ==
    \A i \in 1..Len(lines) :
        IF i = 1 THEN lines[i].depth = 0
        ELSE /\ lines[i].depth <= lines[i - 1].depth + 1
             /\ lines[i].depth = lines[i - 1].depth + 1
                    => lines[i - 1].kind \in {"def", "class"}

\* One line of the line-pattern extraction of analyze_file.
PatternLine(r, lang, line, lineno) ==
    CASE lang \in {"javascript", "typescript"} ->
           [r EXCEPT
              !.symbols = CASE line.kind = "def" -> Append(@, Symbol(line.name, "function", lineno))
                            [] line.kind = "class" -> Append(@, Symbol(line.name, "class", lineno))
                            [] OTHER -> @,
              !.relations = IF line.kind = "import"
                            THEN Append(@, Relation(line.name, "imports", lineno, NoName))
                            ELSE @]
      [] lang \in {"go", "rust"} ->
           [r EXCEPT
              !.symbols = CASE line.kind = "def" -> Append(@, Symbol(line.name, "function", lineno))
                            [] line.kind = "class" -> Append(@, Symbol(line.name, "class", lineno))
                            [] OTHER -> @]

RECURSIVE PatternScan(_, _, _, _)
PatternScan(r, lang, lines, i) ==
    IF i > Len(lines) THEN r
    ELSE PatternScan(PatternLine(r, lang, lines[i], i), lang, lines, i + 1)

FileIndexResult(lang) ==
    [raised |-> FALSE, language |-> lang, symbols |-> <<>>, relations |-> <<>>]

\* analyze_file without its two try/except blocks: a file that cannot be
\* read or parsed raises.
analyze_file_unguarded(path, content) ==
    LET lang == SUPPORTED_SUFFIXES[Suffix(path)]
        result == FileIndexResult(lang)
    IN  IF ~content.readable THEN [result EXCEPT !.raised = TRUE]
        ELSE IF lang = "python"
        THEN IF ParseOk(content.lines)
             THEN LET analyzer == Visit(EmptyAnalyzer, content.lines, 1)
                  IN  [result EXCEPT !.symbols = analyzer.symbols,
                                     !.relations = analyzer.relations]
             ELSE [result EXCEPT !.raised = TRUE]
        ELSE PatternScan(result, lang, content.lines, 1)

\* analyze_file: the result of the analysis, or raised = TRUE when an
\* exception leaves the function.
analyze_file(path, content) ==
    LET lang == SUPPORTED_SUFFIXES[Suffix(path)]
        result == FileIndexResult(lang)
    IN  IF ~content.readable THEN result
        ELSE IF lang = "python"
        THEN IF ParseOk(content.lines)
             THEN LET analyzer == Visit(EmptyAnalyzer, content.lines, 1)
                  IN  [result EXCEPT !.symbols = analyzer.symbols,
                                     !.relations = analyzer.relations]
             ELSE result
        ELSE PatternScan(result, lang, content.lines, 1)

\* ----------------------------------------------------------------- store

\* The store after init_db on a new database file: three empty tables.
EmptyStore == [files |-> {}, symbols |-> {}, relations |-> {}]

\* The rowid SQLite gives a new row of an INTEGER PRIMARY KEY table.
NextId(rows) == IF rows = {} THEN 1 ELSE Max({r.id : r \in rows}) + 1

\* reset_repository starting with the files table.
DeleteRelations_files_first(d) == [d EXCEPT !.files = {}]

\* reset_repository, statement by statement.
DeleteRelations(d) == [d EXCEPT !.relations = {}]

\* reset_repository without its DELETE FROM symbols.
DeleteSymbols_missing(d) == d

DeleteSymbols(d) == [d EXCEPT !.symbols = {}]

DeleteFiles(d) == [d EXCEPT !.files = {}]

\* upsert_file written with INSERT OR REPLACE: the row of the path is
\* deleted and a new one inserted.
upsert_file_replace(d, path, language) ==
    LET kept == {f \in d.files : f.path # path}
        row == [id |-> NextId(d.files), path |-> path, language |-> language]
    IN  [db |-> [d EXCEPT !.files = kept \cup {row}], id |-> row.id]

\* upsert_file: INSERT OR IGNORE on the UNIQUE path, then the id of the row
\* with that path.
upsert_file(d, path, language) ==
    LET inserted ==
            IF \E f \in d.files : f.path = path THEN d
            ELSE [d EXCEPT !.files = @ \cup {[id |-> NextId(d.files), path |-> path,
                                              language |-> language]}]
        row == CHOOSE f \in inserted.files : f.path = path
    IN  [db |-> inserted, id |-> row.id]

\* UNIQUE(file_id, name, kind, lineno): SQLite holds two NULLs to be
\* distinct, so a row with a NULL lineno conflicts with no row.
SymbolConflict(d, file_id, name, kind, lineno) ==
    /\ lineno # Null
    /\ \E s \in d.symbols :
          s.file_id = file_id /\ s.name = name /\ s.kind = kind /\ s.lineno = lineno

\* insert_symbol: INSERT OR IGNORE, then the id of the first row the SELECT
\* returns (lineno IS ? also matches a NULL lineno); the rows of one key
\* come out of the unique index in rowid order.
insert_symbol(d, file_id, name, kind, lineno) ==
    LET inserted ==
            IF SymbolConflict(d, file_id, name, kind, lineno) THEN d
            ELSE [d EXCEPT !.symbols = @ \cup {[id |-> NextId(d.symbols), file_id |-> file_id,
                                                name |-> name, kind |-> kind,
                                                lineno |-> lineno]}]
        ids == {s.id : s \in {t \in inserted.symbols :
                    t.file_id = file_id /\ t.name = name /\ t.kind = kind /\ t.lineno = lineno}}
    IN  [db |-> inserted, id |-> Min(ids)]

\* insert_relation written with INSERT OR IGNORE over a uniqueness
\* constraint on all the columns but the id.
insert_relation_or_ignore(d, file_id, dst_symbol_name, relation_type, lineno, src_symbol_id) ==
    IF \E r \in d.relations :
          /\ r.file_id = file_id /\ r.dst_symbol_name = dst_symbol_name
          /\ r.relation_type = relation_type /\ r.lineno = lineno
          /\ r.src_symbol_id = src_symbol_id
    THEN d
    ELSE [d EXCEPT !.relations = @ \cup {[id |-> NextId(d.relations),
                                          src_symbol_id |-> src_symbol_id,
                                          dst_symbol_name |-> dst_symbol_name,
                                          relation_type |-> relation_type,
                                          file_id |-> file_id,
                                          lineno |-> lineno]}]

\* insert_relation that first deletes the relations stored for the line
\* of the file: one relation per line.
insert_relation_per_line(d, file_id, dst_symbol_name, relation_type, lineno, src_symbol_id) ==
    LET kept == {r \in d.relations : ~(r.file_id = file_id /\ r.lineno = lineno)}
    IN  [d EXCEPT !.relations = kept \cup {[id |-> NextId(d.relations),
                                             src_symbol_id |-> src_symbol_id,
                                             dst_symbol_name |-> dst_symbol_name,
                                             relation_type |-> relation_type,
                                             file_id |-> file_id,
                                             lineno |-> lineno]}]

\* insert_relation: a plain INSERT.
insert_relation(d, file_id, dst_symbol_name, relation_type, lineno, src_symbol_id) ==
    [d EXCEPT !.relations = @ \cup {[id |-> NextId(d.relations),
                                     src_symbol_id |-> src_symbol_id,
                                     dst_symbol_name |-> dst_symbol_name,
                                     relation_type |-> relation_type,
                                     file_id |-> file_id,
                                     lineno |-> lineno]}]

\* summary_stats
summary_stats(d) ==
    [files |-> Cardinality(d.files), symbols |-> Cardinality(d.symbols),
     relations |-> Cardinality(d.relations)]

\* --------------------------------------------------------------- queries

RECURSIVE Scan(_)
\* The rows of a table in rowid order, the order in which a scan of the
\* table or of one key of an index on it produces them.
Scan(rows) ==
    IF rows = {} THEN <<>>
    ELSE LET first == CHOOSE r \in rows : \A q \in rows : r.id <= q.id
         IN  <<first>> \o Scan(rows \ {first})

\* ORDER BY f.path alone.
CallersOrder_path_only(x, y) == StrLess(x.path, y.path)

\* ORDER BY f.path, r.lineno
CallersOrder(x, y) ==
    \/ StrLess(x.path, y.path)
    \/ x.path = y.path /\ IntLess(x.lineno, y.lineno)

\* ORDER BY r.relation_type, f.path
ImpactsOrder(x, y) ==
    \/ StrLess(x.relation_type, y.relation_type)
    \/ x.relation_type = y.relation_type /\ StrLess(x.path, y.path)

\* ORDER BY inbound_refs ASC, s.name ASC
TopOrder_ascending(x, y) ==
    \/ x.inbound_refs < y.inbound_refs
    \/ x.inbound_refs = y.inbound_refs /\ StrLess(x.name, y.name)

\* ORDER BY inbound_refs DESC, s.name ASC
TopOrder(x, y) ==
    \/ x.inbound_refs > y.inbound_refs
    \/ x.inbound_refs = y.inbound_refs /\ StrLess(x.name, y.name)

\* Row x sorts before row y under the ORDER BY clause of the named query.
Before(query, x, y) ==
    CASE query = "callers_of" -> CallersOrder(x, y)
      [] query = "impacts_of" -> ImpactsOrder(x, y)
      [] query = "top_symbols" -> TopOrder(x, y)

\* ORDER BY: the rows sorted by the query's clause, rows that compare equal
\* left in the order in which they were produced.
OrderBy(rows, query) ==
    LET n == Len(rows)
        pos(i) == 1 + Cardinality({j \in 1..n :
                        \/ Before(query, rows[j], rows[i])
                        \/ ~Before(query, rows[i], rows[j]) /\ j < i})
    IN  [k \in 1..n |-> rows[CHOOSE i \in 1..n : pos(i) = k]]

\* The same with JOIN symbols in place of LEFT JOIN symbols.
JoinRelation_inner(d, r) ==
    IF (\E s \in d.symbols : s.id = r.src_symbol_id) /\ (\E f \in d.files : f.id = r.file_id)
    THEN << [path |-> (CHOOSE f \in d.files : f.id = r.file_id).path,
             name |-> (CHOOSE s \in d.symbols : s.id = r.src_symbol_id).name,
             relation_type |-> r.relation_type,
             lineno |-> r.lineno] >>
    ELSE <<>>

\* FROM relations r LEFT JOIN symbols s ON s.id = r.src_symbol_id
\*                  JOIN files f ON f.id = r.file_id
\* for one relation row: a sequence, empty when no file matches.
JoinRelation(d, r) ==
    LET name == IF \E s \in d.symbols : s.id = r.src_symbol_id
                THEN (CHOOSE s \in d.symbols : s.id = r.src_symbol_id).name
                ELSE NoName
    IN  IF \E f \in d.files : f.id = r.file_id
        THEN << [path |-> (CHOOSE f \in d.files : f.id = r.file_id).path,
                 name |-> name,
                 relation_type |-> r.relation_type,
                 lineno |-> r.lineno] >>
        ELSE <<>>

RECURSIVE JoinAll(_, _, _)
JoinAll(d, rows, i) ==
    IF i > Len(rows) THEN <<>>
    ELSE JoinRelation(d, rows[i]) \o JoinAll(d, rows, i + 1)

\* callers_of
callers_of(d, symbol_name) ==
    LET matching == {r \in d.relations :
                        r.relation_type = "calls" /\ r.dst_symbol_name = symbol_name}
        sorted == OrderBy(JoinAll(d, Scan(matching), 1), "callers_of")
    IN  [k \in 1..Len(sorted) |->
            [path |-> sorted[k].path, caller |-> sorted[k].name,
             lineno |-> sorted[k].lineno]]

\* impacts_of
impacts_of(d, symbol_name) ==
    LET matching == {r \in d.relations : r.dst_symbol_name = symbol_name}
        sorted == OrderBy(JoinAll(d, Scan(matching), 1), "impacts_of")
    IN  [k \in 1..Len(sorted) |->
            [path |-> sorted[k].path, dependent |-> sorted[k].name,
             relation_type |-> sorted[k].relation_type, lineno |-> sorted[k].lineno]]

\* top_symbols: one group per symbol id, COUNT(r.id) over the relations the
\* LEFT JOIN matches by name; a negative LIMIT is no limit.
top_symbols(d, limit) ==
    LET scanned == Scan(d.symbols)
        grouped == [k \in 1..Len(scanned) |->
                       [name |-> scanned[k].name, kind |-> scanned[k].kind,
                        inbound_refs |-> Cardinality({r \in d.relations :
                                            r.dst_symbol_name = scanned[k].name})]]
        sorted == OrderBy(grouped, "top_symbols")
    IN  IF limit < 0 \/ limit >= Len(sorted) THEN sorted
        ELSE SubSeq(sorted, 1, limit)

\* ---------------------------------------------------------- indexing run

\* A lookup that finds nothing at module scope and otherwise takes the
\* row inserted first for the file.
MapGet_first(symbol_map, name) ==
    IF name \in DOMAIN symbol_map
    THEN Min({symbol_map[n] : n \in DOMAIN symbol_map}) ELSE Null

\* symbol_map.get(name): the id, or None.
MapGet(symbol_map, name) ==
    IF name \in DOMAIN symbol_map THEN symbol_map[name] ELSE Null

RECURSIVE InsertSymbols(_, _, _, _, _)
\* The loop over analysis.symbols: st = [db, symbol_map].
InsertSymbols(st, file_id, symbols, i, n) ==
    IF i > n THEN st
    ELSE LET symbol == symbols[i]
             r == insert_symbol(st.db, file_id, symbol.name, symbol.kind, symbol.lineno)
         IN  InsertSymbols([db |-> r.db,
                            symbol_map |-> (symbol.name :> r.id) @@ st.symbol_map],
                           file_id, symbols, i + 1, n)

RECURSIVE InsertRelations(_, _, _, _, _, _)
\* The loop over analysis.relations.
InsertRelations(d, file_id, symbol_map, relations, i, n) ==
    IF i > n THEN d
    ELSE LET relation == relations[i] IN
         InsertRelations(
             insert_relation(d, file_id, relation.dst_symbol_name, relation.relation_type,
                             relation.lineno, MapGet(symbol_map, relation.src_symbol_name)),
             file_id, symbol_map, relations, i + 1, n)

\* The body of index_repository's loop for one file whose analysis returned.
IndexFile(d, path, analysis) ==
    LET u == upsert_file(d, path, analysis.language)
        st == InsertSymbols([db |-> u.db, symbol_map |-> <<>>], u.id,
                            analysis.symbols, 1, Len(analysis.symbols))
    IN  InsertRelations(st.db, u.id, st.symbol_map, analysis.relations,
                        1, Len(analysis.relations))

\* Relations a run over tree t appends.
RECURSIVE TreeRelations(_, _)
TreeRelations(t, S) ==
    IF S = {} THEN 0
    ELSE LET p == CHOOSE q \in S : TRUE
         IN  Len(analyze_file(p, t[p]).relations) + TreeRelations(t, S \ {p})

NoStats == [files |-> -1, symbols |-> -1, relations |-> -1]

\* Nothing returned yet to a client of the store.
NoRet == [op |-> "none", args |-> <<>>, id |-> Null]

Init ==
    /\ committed = EmptyStore
    /\ db = EmptyStore
    /\ pc = "idle"
    /\ tree = <<>>
    /\ reset = TRUE
    /\ todo = {}
    /\ stats = NoStats
    /\ ret = NoRet

\* index_repository is called on the tree t: connect, init_db (which adds no
\* row), and the choice between a full and an incremental run.
Begin(t, r) ==
    /\ pc = "idle"
    /\ r \/ Cardinality(db.relations) + TreeRelations(t, DOMAIN t) <= MaxRelations
    /\ tree' = t
    /\ reset' = r
    /\ todo' = DOMAIN t
    /\ stats' = NoStats
    /\ ret' = NoRet
    /\ pc' = IF r THEN "delete_relations" ELSE "files"
    /\ UNCHANGED <<committed, db>>

\* reset_repository: DELETE FROM relations
DeleteRelationsStep ==
    /\ pc = "delete_relations"
    /\ db' = DeleteRelations(db)
    /\ pc' = "delete_symbols"
    /\ UNCHANGED <<committed, tree, reset, todo, stats, ret>>

\* reset_repository: DELETE FROM symbols
DeleteSymbolsStep ==
    /\ pc = "delete_symbols"
    /\ db' = DeleteSymbols(db)
    /\ pc' = "delete_files"
    /\ UNCHANGED <<committed, tree, reset, todo, stats, ret>>

\* reset_repository: DELETE FROM files
DeleteFilesStep ==
    /\ pc = "delete_files"
    /\ db' = DeleteFiles(db)
    /\ pc' = "reset_commit"
    /\ UNCHANGED <<committed, tree, reset, todo, stats, ret>>

\* reset_repository: conn.commit()
ResetCommit ==
    /\ pc = "reset_commit"
    /\ committed' = db
    /\ pc' = "files"
    /\ UNCHANGED <<db, tree, reset, todo, stats, ret>>

\* One iteration of the loop over iter_source_files, which yields the files
\* in the order the file system lists them.
IndexFileStep(path) ==
    /\ pc = "files"
    /\ path \in todo
    /\ LET analysis == analyze_file(path, tree[path]) IN
         IF analysis.raised
         THEN /\ pc' = "raised"
              /\ UNCHANGED <<db, todo>>
         ELSE /\ db' = IndexFile(db, path, analysis)
              /\ todo' = todo \ {path}
              /\ pc' = "files"
    /\ UNCHANGED <<committed, tree, reset, stats, ret>>

\* The end of index_repository: conn.commit(), summary_stats, close.
FinalCommit ==
    /\ pc = "files"
    /\ todo = {}
    /\ committed' = db
    /\ stats' = summary_stats(db)
    /\ pc' = "done"
    /\ UNCHANGED <<db, tree, reset, todo, ret>>

\* index_repository returns stats to its caller.
Return ==
    /\ pc = "done"
    /\ pc' = "idle"
    /\ tree' = <<>>
    /\ reset' = TRUE
    /\ stats' = NoStats
    /\ UNCHANGED <<committed, db, todo, ret>>

\* The run is interrupted (the process is killed, or an exception leaves
\* index_repository): the open transaction is rolled back.
Interrupt ==
    /\ pc \notin {"idle", "done"}
    /\ db' = committed
    /\ pc' = "idle"
    /\ todo' = {}
    /\ tree' = <<>>
    /\ reset' = TRUE
    /\ UNCHANGED <<committed, stats, ret>>

\* A client calls upsert_file on a connection of its own and commits.
UpsertFileCall(path, language) ==
    /\ pc = "idle"
    /\ LET u == upsert_file(db, path, language) IN
         /\ db' = u.db
         /\ committed' = u.db
         /\ ret' = [op |-> "upsert_file", args |-> <<path, language>>, id |-> u.id]
    /\ UNCHANGED <<pc, tree, reset, todo, stats>>

\* A client calls insert_symbol on a connection of its own and commits.
InsertSymbolCall(file_id, name, kind, lineno) ==
    /\ pc = "idle"
    /\ Cardinality(db.symbols) < MaxSymbolRows
    /\ LET r == insert_symbol(db, file_id, name, kind, lineno) IN
         /\ db' = r.db
         /\ committed' = r.db
         /\ ret' = [op |-> "insert_symbol", args |-> <<file_id, name, kind, lineno>>,
                    id |-> r.id]
    /\ UNCHANGED <<pc, tree, reset, todo, stats>>

Next ==
    \/ \E t \in Trees, r \in BOOLEAN : Begin(t, r)
    \/ DeleteRelationsStep
    \/ DeleteSymbolsStep
    \/ DeleteFilesStep
    \/ ResetCommit
    \/ \E path \in Paths : IndexFileStep(path)
    \/ FinalCommit
    \/ Return
    \/ Interrupt

Spec == Init /\ [][Next]_vars

\* Index runs, and between them clients that call upsert_file with a path
\* and a language of their choice.
NextClients ==
    \/ Next
    \/ \E path \in Paths, language \in {"python", "go"} : UpsertFileCall(path, language)

SpecClients == Init /\ [][NextClients]_vars

\* Clients of the store API alone: files are created, then symbols of those
\* files, with and without a line number.
NextApi ==
    \/ \E path \in Paths, language \in {"python", "go"} : UpsertFileCall(path, language)
    \/ \E f \in db.files, kind \in {"function", "class"}, lineno \in {Null, 1} :
          InsertSymbolCall(f.id, "f", kind, lineno)

SpecApi == Init /\ [][NextApi]_vars

\* ------------------------------------------------- what a tree should give

\* The file can be read and parsed.
Parseable(content) == content.readable /\ ParseOk(content.lines)

\* The line of the innermost declaration enclosing line i of a parseable
\* file: the nearest line above it that is indented less; 0 at module scope.
InnermostDecl(lines, i) ==
    LET above == {j \in 1..(i - 1) : lines[j].depth < lines[i].depth}
    IN  IF above = {} THEN 0 ELSE Max(above)

\* The symbols and relations of the parseable files of tree t, each with its
\* path, as the visitor extracts them.
GoodSymbolKeys(t) ==
    UNION {LET a == Visit(EmptyAnalyzer, t[p].lines, 1)
           IN  {<<p, a.symbols[i].name, a.symbols[i].kind, a.symbols[i].lineno>> :
                    i \in 1..Len(a.symbols)} :
           p \in {q \in DOMAIN t : Parseable(t[q])}}

GoodRelationKeys(t) ==
    UNION {LET a == Visit(EmptyAnalyzer, t[p].lines, 1)
           IN  {<<p, a.relations[i].dst_symbol_name, a.relations[i].relation_type,
                  a.relations[i].lineno>> : i \in 1..Len(a.relations)} :
           p \in {q \in DOMAIN t : Parseable(t[q])}}

\* The stored rows, each with the path of its file.
StoredSymbolKeys(d) ==
    {<<x[1].path, x[2].name, x[2].kind, x[2].lineno>> :
        x \in {y \in d.files \X d.symbols : y[1].id = y[2].file_id}}

StoredRelationKeys(d) ==
    {<<x[1].path, x[2].dst_symbol_name, x[2].relation_type, x[2].lineno>> :
        x \in {y \in d.files \X d.relations : y[1].id = y[2].file_id}}

RECURSIVE SumOver(_, _)
\* Sum of the function n over the set S of its domain.
SumOver(n, S) ==
    IF S = {} THEN 0
    ELSE LET p == CHOOSE q \in S : TRUE IN n[p] + SumOver(n, S \ {p})

\* The counts a full run over tree t reports: one file row per path, one
\* symbol row per distinct declaration, one relation row per reference.
TreeCounts(t) ==
    [files |-> Cardinality(DOMAIN t),
     symbols |-> SumOver([p \in DOMAIN t |->
                    LET a == analyze_file(p, t[p])
                    IN  Cardinality({a.symbols[i] : i \in 1..Len(a.symbols)})], DOMAIN t),
     relations |-> SumOver([p \in DOMAIN t |-> Len(analyze_file(p, t[p]).relations)],
                           DOMAIN t)]

\* ------------------------------------------------------------ properties

\* C1 (as claimed): no step of an index_repository run other than its final
\* commit changes the committed contents of the store, so that a run
\* interrupted before its final commit leaves what was committed before it
\* started.  The commit inside reset_repository breaks this.
C1_NoWriteDurableBeforeFinalCommit ==
    [][(pc \notin {"idle", "done"} /\ pc' # "done") => committed' = committed]_vars

\* C2: a completed run with reset = true reports exactly the counts of the
\* tree it ran over, whatever the store held before, and what it reports is
\* what is committed.
C2_FullResetCountsDependOnTreeOnly ==
    (pc = "done" /\ reset) =>
        /\ stats = TreeCounts(tree)
        /\ summary_stats(committed) = TreeCounts(tree)

\* C2 witness: a full run over two files with symbols and relations is done.
C2_Witness ==
    /\ pc = "done" /\ reset
    /\ stats.files = 2 /\ stats.symbols >= 3 /\ stats.relations >= 3

\* C3 (as claimed): after a full run, the calls relation of every call
\* expression of a parseable file originates from the Symbol row of the
\* innermost declaration enclosing the call, and from no row at module
\* scope.  Two declarations of one name in a file break this.
C3_CallsOriginateFromInnermostDecl ==
    (pc = "done" /\ reset) =>
        \A p \in DOMAIN tree : Parseable(tree[p]) =>
            \A i \in 1..Len(tree[p].lines) : tree[p].lines[i].kind = "call" =>
                \A f \in db.files : f.path = p =>
                    \A r \in db.relations :
                        (r.file_id = f.id /\ r.lineno = i /\ r.relation_type = "calls") =>
                            LET j == InnermostDecl(tree[p].lines, i)
                            IN  IF j = 0 THEN r.src_symbol_id = Null
                                ELSE \E s \in db.symbols :
                                        /\ s.id = r.src_symbol_id
                                        /\ s.file_id = f.id
                                        /\ s.lineno = j
                                        /\ s.name = tree[p].lines[j].name

\* C4: no run raises because of a file, and after a full run the stored
\* symbols and relations are exactly those of the parseable files of the
\* tree: an unreadable or invalid file has a File row and nothing else.
C4_BadFilesContributeNothing ==
    /\ pc # "raised"
    /\ (pc = "done" /\ reset) =>
          /\ StoredSymbolKeys(db) = GoodSymbolKeys(tree)
          /\ StoredRelationKeys(db) = GoodRelationKeys(tree)
          /\ Cardinality(db.symbols) = Cardinality(GoodSymbolKeys(tree))
          /\ Cardinality(db.relations) = Cardinality(GoodRelationKeys(tree))
          /\ \A p \in DOMAIN tree : \E f \in db.files : f.path = p

\* C4 witness: a full run over one parseable and one bad file is done and
\* has stored the parseable file's rows.
C4_Witness ==
    /\ pc = "done" /\ reset
    /\ \E p, q \in DOMAIN tree :
          /\ Parseable(tree[p]) /\ ~Parseable(tree[q])
          /\ tree[q].readable
          /\ \E k \in StoredSymbolKeys(db) : k[1] = p
          /\ \E k \in StoredRelationKeys(db) : k[1] = p

\* C5 (as claimed): after insert_symbol returns, exactly one Symbol row has
\* the key (file_id, name, kind, lineno) of the call, and the call returned
\* the id of that row.  A key whose lineno is NULL breaks this.
C5_InsertSymbolGetOrCreate ==
    ret.op = "insert_symbol" =>
        LET rows == {s \in db.symbols : <<s.file_id, s.name, s.kind, s.lineno>> = ret.args}
        IN  /\ Cardinality(rows) = 1
            /\ \A s \in rows : s.id = ret.id

\* No two File rows share a path.
OneRowPerPath(d) == \A f, g \in d.files : f.path = g.path => f = g

\* C6: at most one File row exists per path, whatever upsert_file calls and
\* index runs came before; upsert_file on a path that has a row returns
\* the id of that row and leaves the files table as it was, and so does the
\* upsert_file of an index run.
C6_UpsertFileGetOrCreate ==
    /\ [](OneRowPerPath(db) /\ OneRowPerPath(committed))
    /\ [][\A p \in Paths : \A f \in db.files : f.path = p =>
            /\ \A l \in {"python", "go"} :
                  UpsertFileCall(p, l) => (db'.files = db.files /\ ret'.id = f.id)
            /\ IndexFileStep(p) => db'.files = db.files]_vars

\* C6 witness: upsert_file was called with the path of a row of another
\* language and returned that row's id; the row kept its language.
C6_Witness ==
    /\ ret.op = "upsert_file"
    /\ \E f \in db.files :
          f.path = ret.args[1] /\ f.language # ret.args[2] /\ f.id = ret.id
    /\ Cardinality(db.files) = 2

\* Every symbol and relation row of d belongs to a file row of d.
FileIdsExist(d) ==
    /\ \A s \in d.symbols : \E f \in d.files : f.id = s.file_id
    /\ \A r \in d.relations : \E f \in d.files : f.id = r.file_id

\* C7: in every state of the store, committed or inside a run's
\* transaction (between the DELETE statements of reset_repository too),
\* the file_id of every Symbol and Relation row is the id of a File row.
C7_FileIdsReferToFiles == FileIdsExist(db) /\ FileIdsExist(committed)

\* C7 witness: reset_repository has deleted the relations and not yet the
\* symbols and files of a store that held all three.
C7_Witness ==
    /\ pc = "delete_symbols"
    /\ committed.relations # {}
    /\ db.relations = {} /\ db.symbols # {} /\ db.files # {}

\* The names asked about: declared and called (f, g), only imported (m).
QueryNames == {"f", "g", "m"}

\* The name of the symbol a relation row originates from, NULL without one.
OriginName(d, r) ==
    IF r.src_symbol_id = Null THEN NoName
    ELSE (CHOOSE s \in d.symbols : s.id = r.src_symbol_id).name

\* The path of the file of a relation row.
PathOfRelation(d, r) == (CHOOSE f \in d.files : f.id = r.file_id).path

\* How many entries of the sequence res equal row.
Occurrences(res, row) == Cardinality({k \in 1..Len(res) : res[k] = row})

\* The row callers_of should give for relation r.
CallerRow(d, r) ==
    [path |-> PathOfRelation(d, r), caller |-> OriginName(d, r), lineno |-> r.lineno]

\* C8: callers_of(name) holds one row per stored calls relation whose
\* destination is name and no other row, with a NULL caller for a NULL
\* src_symbol_id, ordered by path and then by line, both ascending.
C8_CallersOfExactAndOrdered ==
    \A name \in QueryNames :
        LET res == callers_of(db, name)
            rel == {r \in db.relations :
                       r.relation_type = "calls" /\ r.dst_symbol_name = name}
        IN  /\ Len(res) = Cardinality(rel)
            /\ \A r \in rel :
                  Occurrences(res, CallerRow(db, r)) =
                      Cardinality({q \in rel : CallerRow(db, q) = CallerRow(db, r)})
            /\ \A i, j \in 1..Len(res) : i < j =>
                  \/ StrRank(res[i].path) < StrRank(res[j].path)
                  \/ res[i].path = res[j].path /\ res[i].lineno <= res[j].lineno

\* C8 witness: a name has callers in two files, one of them at module
\* scope, and in one file a call stored later stands on an earlier line.
C8_Witness ==
    \E name \in QueryNames :
        LET res == callers_of(db, name) IN
        /\ \E i, j \in 1..Len(res) : res[i].path # res[j].path
        /\ \E i, j \in 1..Len(res) : res[i].caller = NoName /\ res[j].caller # NoName
        /\ \E r, q \in db.relations :
              /\ r.relation_type = "calls" /\ q.relation_type = "calls"
              /\ r.dst_symbol_name = name /\ q.dst_symbol_name = name
              /\ r.file_id = q.file_id /\ r.id < q.id /\ r.lineno > q.lineno

\* The row impacts_of should give for relation r.
ImpactRow(d, r) ==
    [path |-> PathOfRelation(d, r), dependent |-> OriginName(d, r),
     relation_type |-> r.relation_type, lineno |-> r.lineno]

\* C9: impacts_of(name) holds one row per stored relation of any type
\* whose destination is name, whether or not a symbol is named name,
\* ordered by relation type and then by path.
C9_ImpactsOfExactAndOrdered ==
    \A name \in QueryNames :
        LET res == impacts_of(db, name)
            rel == {r \in db.relations : r.dst_symbol_name = name}
        IN  /\ Len(res) = Cardinality(rel)
            /\ \A r \in rel :
                  Occurrences(res, ImpactRow(db, r)) =
                      Cardinality({q \in rel : ImpactRow(db, q) = ImpactRow(db, r)})
            /\ \A i, j \in 1..Len(res) : i < j =>
                  \/ StrRank(res[i].relation_type) < StrRank(res[j].relation_type)
                  \/ /\ res[i].relation_type = res[j].relation_type
                     /\ StrRank(res[i].path) <= StrRank(res[j].path)

\* C9 witness: a name no symbol bears has impact rows, and a name has rows
\* of two relation types in two files, stored in another order than the
\* one returned.
C9_Witness ==
    /\ \E name \in QueryNames :
          /\ \A s \in db.symbols : s.name # name
          /\ Len(impacts_of(db, name)) >= 1
    /\ \E name \in QueryNames :
          LET res == impacts_of(db, name) IN
          /\ \E i, j \in 1..Len(res) :
                res[i].relation_type # res[j].relation_type /\ res[i].path # res[j].path
          /\ \E r, q \in db.relations :
                /\ r.dst_symbol_name = name /\ q.dst_symbol_name = name
                /\ r.id < q.id
                /\ StrRank(q.relation_type) < StrRank(r.relation_type)

\* Relations whose destination is the name.
Inbound(d, name) == Cardinality({r \in d.relations : r.dst_symbol_name = name})

\* C10: for a limit >= 0, top_symbols(limit) holds min(limit, number of
\* symbols) rows, each the row of a Symbol of its own with the number of
\* relations naming it, ordered by that number descending and then by
\* name ascending; no symbol left out has more than a symbol returned.
C10_TopSymbolsRanked ==
    \A limit \in 0..MaxLimit :
        LET res == top_symbols(db, limit)
            left == {s \in db.symbols :
                        Occurrences(res, [name |-> s.name, kind |-> s.kind,
                                          inbound_refs |-> Inbound(db, s.name)])
                        < Cardinality({t \in db.symbols : t.name = s.name /\ t.kind = s.kind})}
        IN  /\ Len(res) <= limit
            /\ Len(res) = IF Cardinality(db.symbols) < limit
                          THEN Cardinality(db.symbols) ELSE limit
            /\ \A k \in 1..Len(res) :
                  /\ res[k].inbound_refs = Inbound(db, res[k].name)
                  /\ Occurrences(res, res[k]) <=
                        Cardinality({s \in db.symbols :
                                        s.name = res[k].name /\ s.kind = res[k].kind})
            /\ \A i, j \in 1..Len(res) : i < j =>
                  \/ res[i].inbound_refs > res[j].inbound_refs
                  \/ /\ res[i].inbound_refs = res[j].inbound_refs
                     /\ StrRank(res[i].name) <= StrRank(res[j].name)
            /\ \A s \in left : \A k \in 1..Len(res) :
                  Inbound(db, s.name) <= res[k].inbound_refs

\* C10 witness: a limit cuts the result, and the symbols differ in the
\* number of relations naming them, the last stored having the most.
C10_Witness ==
    \E limit \in 1..MaxLimit :
        /\ Cardinality(db.symbols) > limit
        /\ Len(top_symbols(db, limit)) = limit
        /\ \E s, t \in db.symbols :
              s.id < t.id /\ Inbound(db, s.name) < Inbound(db, t.name)

\* Every row of store d is a row of store e.
RowsKept(d, e) ==
    /\ d.files \subseteq e.files
    /\ d.symbols \subseteq e.symbols
    /\ d.relations \subseteq e.relations

\* The store holds a File row for every path of tree t and a Symbol row
\* for every declaration of it, as it does after a completed run over t.
HoldsTree(d, t) ==
    /\ \A p \in DOMAIN t : \E f \in d.files : f.path = p
    /\ GoodSymbolKeys(t) \subseteq StoredSymbolKeys(d)

\* C11: a run with reset = false is purely additive.  While it goes on,
\* every row committed before it is in its transaction; its final commit
\* keeps every row committed before it (rows of paths absent from the tree
\* too) and adds one relation row per relation extracted, and over a tree
\* whose files and declarations the store holds already it leaves the file
\* and symbol counts as they were.
C11_IncrementalRunIsAdditive ==
    /\ []((~reset /\ pc = "files") => RowsKept(committed, db))
    /\ [][(~reset /\ pc = "files" /\ pc' = "done") =>
            /\ RowsKept(committed, committed')
            /\ Cardinality(committed'.relations) =
                   Cardinality(committed.relations) + TreeCounts(tree).relations
            /\ stats'.relations = Cardinality(committed'.relations)
            /\ HoldsTree(committed, tree) =>
                   /\ Cardinality(committed'.files) = Cardinality(committed.files)
                   /\ Cardinality(committed'.symbols) = Cardinality(committed.symbols)]_vars

\* C11 witness: an incremental run is done; a relation is stored twice, and
\* a symbol and a relation of a path that is not in the tree are still
\* stored.
C11_Witness ==
    /\ pc = "done" /\ ~reset
    /\ stats.symbols = Cardinality(StoredSymbolKeys(db))
    /\ \E r, q \in db.relations : r.id # q.id /\ [r EXCEPT !.id = q.id] = q
    /\ \E f \in db.files :
          /\ f.path \notin DOMAIN tree
          /\ \E s \in db.symbols : s.file_id = f.id
          /\ \E r \in db.relations : r.file_id = f.id

\* ----------------------------------------------------- source file walk

\* A path is the sequence of its parts (Path.parts): "/" first when it is
\* absolute, then one part per segment.

\* part.startswith(".")
StartsWithDot(part) == part \in {".", "..", ".cache", ".git", ".x.py"}

\* The roots index_repository is handed: absolute ones (cbg.py resolves the
\* repository path) outside and inside a hidden, a build-output and a
\* distribution directory, and one relative to the parent directory.
Roots == {<<"/", "home", "repo">>, <<"/", "home", ".cache", "repo">>,
          <<"/", "srv", "target", "repo">>, <<"/", "srv", "dist">>, <<"..", "repo">>}

\* The regular files a tree may hold, each by its parts below the root.
RelFiles == {<<"a.py">>, <<"b.txt">>, <<".x.py">>, <<"src", "c.go">>, <<".git", "a.py">>,
             <<"src", "node_modules", "c.js">>, <<"dist", "c.ts">>, <<"target", "c.rs">>,
             <<"d.py", "a.py">>}

\* The directories that hold the files.
DirsOf(files) == UNION {{SubSeq(f, 1, k) : k \in 1..(Len(f) - 1)} : f \in files}

RECURSIVE Listing(_)
\* The entries of a set of paths, one after the other.
Listing(entries) ==
    IF entries = {} THEN <<>>
    ELSE LET e == CHOOSE x \in entries : TRUE IN <<e>> \o Listing(entries \ {e})

\* root.rglob("*"): every file and directory below root, each once, as a
\* path that starts with the parts of root.
rglob(root, files) ==
    LET listed == Listing(files \cup DirsOf(files))
    IN  [k \in 1..Len(listed) |-> root \o listed[k]]

\* path.is_file() for a path rglob gave.
is_file(root, files, path) == \E f \in files : path = root \o f

\* The test of one path in iter_source_files.
Yielded(root, files, path) ==
    /\ is_file(root, files, path)
    /\ ~\E i \in 1..Len(path) : StartsWithDot(path[i]) /\ path[i] \notin {".", ".."}
    /\ ~\E i \in 1..Len(path) : path[i] \in {"node_modules", "target", "dist"}
    /\ Suffix(path[Len(path)]) \in DOMAIN SUPPORTED_SUFFIXES

\* iter_source_files: the paths yielded, in the order rglob gives them.
iter_source_files(root, files) == SelectSeq(rglob(root, files), LAMBDA path : Yielded(root, files, path))

\* iter_source_files is run on a root holding the files.
IterSourceFilesCall(root, files) ==
    /\ pc = "idle"
    /\ ret = NoRet
    /\ ret' = [op |-> "iter_source_files", args |-> <<root, files>>, id |-> Null,
               out |-> iter_source_files(root, files)]
    /\ UNCHANGED <<committed, db, pc, tree, reset, todo, stats>>

\* The caller has taken the result of its call.
ResultTaken ==
    /\ pc = "idle"
    /\ ret # NoRet
    /\ ret' = NoRet
    /\ UNCHANGED <<committed, db, pc, tree, reset, todo, stats>>

NextWalk ==
    \/ /\ ret = NoRet
       /\ \E root \in Roots, files \in SUBSET RelFiles : IterSourceFilesCall(root, files)
    \/ ResultTaken

SpecWalk == Init /\ [][NextWalk]_vars

\* The file whose parts below the root are rel is a source file of the
\* tree: no part of rel is hidden or names a vendor or build directory,
\* and its extension is a supported one.
SourceFileBelowRoot(rel) ==
    /\ \A i \in 1..Len(rel) : ~StartsWithDot(rel[i])
    /\ \A i \in 1..Len(rel) : rel[i] \notin {"node_modules", "target", "dist"}
    /\ Suffix(rel[Len(rel)]) \in {".py", ".js", ".ts", ".rs", ".go"}

\* C17 (as claimed): wherever the root is, iter_source_files(root) yields
\* each source file below the root once and no other path.  A root that
\* lies under a hidden, node_modules, target or dist directory breaks this.
C17_YieldsTheSourceFilesBelowRoot ==
    ret.op = "iter_source_files" =>
        LET root == ret.args[1]
            files == ret.args[2]
        IN  /\ \A k \in 1..Len(ret.out) :
                  \E f \in files : SourceFileBelowRoot(f) /\ ret.out[k] = root \o f
            /\ \A f \in files : SourceFileBelowRoot(f) =>
                  Cardinality({k \in 1..Len(ret.out) : ret.out[k] = root \o f}) = 1

\* ------------------------------------------------------- question terms

\* A text (a Python str) is the sequence of its characters.

UpperCase == <<"A", "B", "C", "D", "E", "F", "G", "H", "I", "J", "K", "L", "M", "N", "O", "P", "Q", "R", "S", "T", "U", "V", "W", "X", "Y", "Z">>

LowerCase == <<"a", "b", "c", "d", "e", "f", "g", "h", "i", "j", "k", "l", "m", "n", "o", "p", "q", "r", "s", "t", "u", "v", "w", "x", "y", "z">>

Digits == {"0", "1", "2", "3", "4", "5", "6", "7", "8", "9"}

\* str.lower() of one character: the small letter of each capital.
SmallOf ==
    [u \in {UpperCase[i] : i \in 1..Len(UpperCase)} |->
        LowerCase[CHOOSE i \in 1..Len(UpperCase) : UpperCase[i] = u]]

Lower(c) == IF c \in DOMAIN SmallOf THEN SmallOf[c] ELSE c

\* str.lower()
lower(text) == [i \in 1..Len(text) |-> Lower(text[i])]

\* sub in text
Contains(text, sub) ==
    \E i \in 0..(Len(text) - Len(sub)) : SubSeq(text, i + 1, i + Len(sub)) = sub

\* QUESTION_PATTERNS, in the order of the dict.
QUESTION_PATTERNS == <<
    [topic |-> <<"a", "u", "t", "h", "e", "n", "t", "i", "c", "a", "t", "i", "o", "n">>,
     keywords |-> <<<<"a", "u", "t", "h">>,
                   <<"l", "o", "g", "i", "n">>,
                   <<"t", "o", "k", "e", "n">>,
                   <<"o", "a", "u", "t", "h">>,
                   <<"j", "w", "t">>>>],
    [topic |-> <<"c", "h", "e", "c", "k", "o", "u", "t">>,
     keywords |-> <<<<"c", "h", "e", "c", "k", "o", "u", "t">>,
                   <<"c", "a", "r", "t">>,
                   <<"p", "a", "y", "m", "e", "n", "t">>,
                   <<"o", "r", "d", "e", "r">>>>],
    [topic |-> <<"p", "e", "r", "f", "o", "r", "m", "a", "n", "c", "e">>,
     keywords |-> <<<<"s", "l", "o", "w">>,
                   <<"l", "a", "t", "e", "n", "c", "y">>,
                   <<"t", "i", "m", "e", "o", "u", "t">>,
                   <<"t", "h", "r", "o", "u", "g", "h", "p", "u", "t">>>>] >>

STOPWORDS ==
    {<<"w", "h", "e", "r", "e">>,
     <<"w", "h", "a", "t">>,
     <<"d", "o", "e", "s">>,
     <<"h", "a", "p", "p", "e", "n">>,
     <<"w", "h", "e", "n">>,
     <<"h", "o", "w">>,
     <<"t", "h", "e">>,
     <<"a", "n", "d">>,
     <<"f", "o", "r">>,
     <<"w", "i", "t", "h">>,
     <<"f", "r", "o", "m">>,
     <<"t", "h", "a", "t">>,
     <<"t", "h", "i", "s">>}

\* The terms _extract_terms keeps.
MaxTerms == 10

\* [a-zA-Z_]
StartChars ==
    {LowerCase[i] : i \in 1..Len(LowerCase)} \cup {UpperCase[i] : i \in 1..Len(UpperCase)}
        \cup {"_"}

IsStartChar(c) == c \in StartChars

\* [a-zA-Z0-9_]
IsWordChar(c) == IsStartChar(c) \/ c \in Digits

RECURSIVE RunEnd(_, _)
\* The last position of the longest run of word characters that starts at
\* position i (i - 1 when the character at i is not one).
RunEnd(q, i) ==
    IF i <= Len(q) /\ IsWordChar(q[i]) THEN RunEnd(q, i + 1) ELSE i - 1

RECURSIVE findall(_, _)
\* re.findall(r"[a-zA-Z_][a-zA-Z0-9_]{2,}", q) from position i on: the
\* leftmost match, greedy, then the text after it.
findall(q, i) ==
    IF i > Len(q) THEN <<>>
    ELSE IF IsStartChar(q[i]) /\ RunEnd(q, i) - i + 1 >= 3
    THEN <<SubSeq(q, i, RunEnd(q, i))>> \o findall(q, RunEnd(q, i) + 1)
    ELSE findall(q, i + 1)

RECURSIVE TopicTerms(_, _)
\* The loop over QUESTION_PATTERNS from entry k on.
TopicTerms(q, k) ==
    IF k > Len(QUESTION_PATTERNS) THEN <<>>
    ELSE LET topic == QUESTION_PATTERNS[k].topic
             keywords == QUESTION_PATTERNS[k].keywords
         IN  (IF \E n \in 1..Len(keywords) : Contains(q, keywords[n])
              THEN <<topic>> \o keywords
              ELSE <<>>) \o TopicTerms(q, k + 1)

\* The loop that builds deduped, without its test of seen.
Dedupe_none(terms) == terms

RECURSIVE DedupeLoop(_, _, _)
\* The loop that builds deduped, from term i on.
DedupeLoop(terms, i, deduped) ==
    IF i > Len(terms) THEN deduped
    ELSE IF \E j \in 1..Len(deduped) : deduped[j] = terms[i]
    THEN DedupeLoop(terms, i + 1, deduped)
    ELSE DedupeLoop(terms, i + 1, Append(deduped, terms[i]))

\* The first occurrence of every term, in the order of the list.
Dedupe(terms) == DedupeLoop(terms, 1, <<>>)

\* seq[:n] for n >= 0
Prefix(seq, n) == IF Len(seq) <= n THEN seq ELSE SubSeq(seq, 1, n)

\* _extract_terms
extract_terms(question) ==
    LET q == lower(question)
        tokens == SelectSeq(findall(q, 1), LAMBDA t : t \notin STOPWORDS)
    IN  Prefix(Dedupe(TopicTerms(q, 1) \o tokens), MaxTerms)

\* The pieces questions are put together from: a key word of each topic
\* (one with a capital), a stop word, a run that starts with a digit, an
\* underscore and a blank.
Fragments == {<<"j", "w", "t">>, <<"C", "a", "r", "t">>, <<"s", "l", "o", "w">>, <<" ">>, <<"t", "h", "e">>, <<"2", "f", "a">>, <<"_">>}

RECURSIVE Concat(_)
\* The texts of a sequence, one after the other.
Concat(texts) == IF texts = <<>> THEN <<>> ELSE Head(texts) \o Concat(Tail(texts))

\* Every text of at most MaxFragments pieces.
Questions == {Concat(fs) : fs \in UNION {[1..n -> Fragments] : n \in 0..MaxFragments}}

\* _extract_terms is called on a question.
ExtractTermsCall(question) ==
    /\ pc = "idle"
    /\ ret = NoRet
    /\ ret' = [op |-> "_extract_terms", args |-> <<question>>, id |-> Null,
               out |-> extract_terms(question)]
    /\ UNCHANGED <<committed, db, pc, tree, reset, todo, stats>>

NextTerms ==
    \/ /\ ret = NoRet
       /\ \E question \in Questions : ExtractTermsCall(question)
    \/ ResultTaken

SpecTerms == Init /\ [][NextTerms]_vars

\* The entries of list at the positions of the set idx, in ascending order
\* of position.
AtPositions(list, idx) ==
    [k \in 1..Cardinality(idx) |->
        list[CHOOSE i \in idx : Cardinality({j \in idx : j < i}) = k - 1]]

\* The list without the entries that occurred before in it.
FirstOccurrences(list) ==
    AtPositions(list, {i \in 1..Len(list) : \A j \in 1..(i - 1) : list[j] # list[i]})

\* For each topic, in table order, one of whose key words occurs in q: its
\* label, then all its key words.
TriggeredTopics(q) ==
    Concat([k \in 1..Len(QUESTION_PATTERNS) |->
              IF \E kw \in {QUESTION_PATTERNS[k].keywords[n] :
                                n \in 1..Len(QUESTION_PATTERNS[k].keywords)} : Contains(q, kw)
              THEN <<QUESTION_PATTERNS[k].topic>> \o QUESTION_PATTERNS[k].keywords
              ELSE <<>>])

IsAlnum(c) == IsWordChar(c) /\ c # "_"

\* The runs of q in order of position: a run starts at a position i that
\* opens a longest stretch of characters of the given class (letters and
\* digits, with the underscore when underscore is TRUE), goes on to the
\* end of the stretch, and starts after the leading digits of the stretch
\* when digits_skipped is TRUE.
Runs(q, underscore, digits_skipped) ==
    LET in(c) == IF underscore THEN IsWordChar(c) ELSE IsAlnum(c)
        opens == {i \in 1..Len(q) : in(q[i]) /\ (i = 1 \/ ~in(q[i - 1]))}
        end(i) == CHOOSE j \in i..Len(q) :
                     /\ \A k \in i..j : in(q[k])
                     /\ j = Len(q) \/ ~in(q[j + 1])
        from(i) == IF digits_skipped /\ \E k \in i..end(i) : q[k] \notin Digits
                   THEN CHOOSE k \in i..end(i) :
                           q[k] \notin Digits /\ \A m \in i..(k - 1) : q[m] \in Digits
                   ELSE IF digits_skipped THEN end(i) + 1 ELSE i
        runs == AtPositions([i \in 1..Len(q) |-> SubSeq(q, from(i), end(i))], opens)
    IN  SelectSeq(runs, LAMBDA r : Len(r) >= 3 /\ r \notin STOPWORDS)

\* C14 (as claimed): _extract_terms gives the first 10 entries, without
\* repetition and in order of first occurrence, of the triggered topics
\* followed by every run of letters and digits of length >= 3 of the
\* lower-cased question that is not a stop word.  A run that starts with a
\* digit, or holds an underscore, breaks this.
C14_TermsAreAlphanumericRuns ==
    ret.op = "_extract_terms" =>
        LET q == lower(ret.args[1])
        IN  ret.out = Prefix(FirstOccurrences(TriggeredTopics(q) \o Runs(q, FALSE, FALSE)), 10)

\* C14 (amended): the same, the runs being the runs of letters, digits and
\* underscores, each taken without its leading digits; the result is at
\* most 10 terms long and holds no term twice.
C14_TermsAreIdentifierRuns ==
    ret.op = "_extract_terms" =>
        LET q == lower(ret.args[1])
        IN  /\ ret.out = Prefix(FirstOccurrences(TriggeredTopics(q) \o Runs(q, TRUE, TRUE)), 10)
            /\ Len(ret.out) <= 10
            /\ \A i, j \in 1..Len(ret.out) : ret.out[i] = ret.out[j] => i = j

\* C14 witness: a question with a capital letter triggers two topics, and
\* the result is cut at 10 terms, before a run of the question.
C14_Witness ==
    /\ ret.op = "_extract_terms"
    /\ ret.args[1] # lower(ret.args[1])
    /\ Len(ret.out) = 10
    /\ ret.out[1] = QUESTION_PATTERNS[1].topic
    /\ ret.out[7] = QUESTION_PATTERNS[2].topic
    /\ \E r \in {Runs(lower(ret.args[1]), TRUE, TRUE)[k] :
                    k \in 1..Len(Runs(lower(ret.args[1]), TRUE, TRUE))} :
          \A i \in 1..10 : ret.out[i] # r

\* ------------------------------------------------------ evidence search

\* The limit of _collect_evidence when its caller names none.
DefaultLimit == 40

\* Candidate rows fetched per row asked for.
CandidateFactor == 3

\* Most rows of the fallback listing.
FallbackLimit == 10

\* The characters of a text of the store or of a query.
Chars(s) ==
    CASE s = "Cart" -> <<"C", "a", "r", "t">> []
         s = "a.py" -> <<"a", ".", "p", "y">> []
         s = "b.py" -> <<"b", ".", "p", "y">> []
         s = "calls" -> <<"c", "a", "l", "l", "s">> []
         s = "cart.py" -> <<"c", "a", "r", "t", ".", "p", "y">> []
         s = "class" -> <<"c", "l", "a", "s", "s">> []
         s = "declares" -> <<"d", "e", "c", "l", "a", "r", "e", "s">> []
         s = "f" -> <<"f">> []
         s = "fallback" -> <<"f", "a", "l", "l", "b", "a", "c", "k">> []
         s = "function" -> <<"f", "u", "n", "c", "t", "i", "o", "n">> []
         s = "g" -> <<"g">> []
         s = "imports" -> <<"i", "m", "p", "o", "r", "t", "s">> []
         s = "inherits" -> <<"i", "n", "h", "e", "r", "i", "t", "s">> []
         s = "jwt.py" -> <<"j", "w", "t", ".", "p", "y">> []
         s = "m" -> <<"m">> []
         s = "top" -> <<"t", "o", "p">>

\* The trees the retriever's stores are indexed from: cart.py declares m, g
\* and f; jwt.py declares the class Cart, alone or with a call of f and an
\* import of g after it; a.py declares f on each of 11 lines, or nothing.
EvidenceTrees ==
    LET cart == File(TRUE, <<Line("def", "m", 0, NoName), Line("def", "g", 0, NoName),
                             Line("def", "f", 0, NoName)>>)
        class == File(TRUE, <<Line("class", "Cart", 0, NoName)>>)
        uses == File(TRUE, <<Line("class", "Cart", 0, NoName), Line("call", "f", 0, NoName),
                             Line("import", "g", 0, NoName)>>)
    IN  { [p \in {"cart.py", "jwt.py"} |-> IF p = "cart.py" THEN cart ELSE class],
          [p \in {"cart.py", "jwt.py"} |-> IF p = "cart.py" THEN cart ELSE uses],
          [p \in {"a.py"} |-> File(TRUE, [i \in 1..(FallbackLimit + 1) |->
                                              Line("def", "f", 0, NoName)])],
          [p \in {"a.py"} |-> File(TRUE, <<>>)] }

RECURSIVE IndexTree(_, _, _, _)
\* A whole index_repository run with reset = true that nothing interrupts,
\* over the files of tree t in the order iter_source_files yields them,
\* from file i on.
IndexTree(d, t, order, i) ==
    IF i > Len(order) THEN d
    ELSE IndexTree(IndexFile(d, order[i], analyze_file(order[i], t[order[i]])), t, order, i + 1)

\* The orders in which iter_source_files may yield the paths S.
Orders(S) == {o \in [1..Cardinality(S) -> S] : \A i, j \in 1..Cardinality(S) : o[i] = o[j] => i = j}

\* The stores the retriever reads: the empty one, and those a full run
\* over one of the trees leaves, whatever the order of the files.
EvidenceStores ==
    {EmptyStore} \cup
    UNION {{IndexTree(EmptyStore, t, o, 1) : o \in Orders(DOMAIN t)} : t \in EvidenceTrees}

\* The pieces of the questions asked of the retriever: a key word of each
\* topic (jwt is part of a path, Cart a symbol), a stop word, a blank, and
\* a word with an underscore.
AskedPieces == {<<"j", "w", "t">>, <<"C", "a", "r", "t">>, <<"s", "l", "o", "w">>, <<"t", "h", "e">>, <<" ">>, <<"c", "_", "r", "t">>}

\* Every question of at most MaxAsked pieces.
Asked == {Concat(fs) : fs \in UNION {[1..n -> AskedPieces] : n \in 0..MaxAsked}}

\* The limits the retriever is called with.
EvidenceLimits == (1..MaxLimit) \cup {DefaultLimit}

\* text LIKE '%term%' for lower-cased texts: an underscore of the term
\* stands for any one character.
Like(text, term) ==
    \E i \in 0..(Len(text) - Len(term)) :
        \A k \in 1..Len(term) : term[k] = "_" \/ term[k] = text[i + k]

\* The path of the File row of a symbol.
PathOf(d, s) == (CHOOSE f \in d.files : f.id = s.file_id).path

\* FROM symbols s JOIN files f ON f.id = s.file_id: the symbols that have
\* a File row.
Joined(d) == {s \in d.symbols : \E f \in d.files : f.id = s.file_id}

\* The two ways SQLite runs the candidate query.  "index": files in the
\* order of the index on path, the symbols of each in the order of the
\* index on (file_id, name, kind, lineno).  "scan": symbols in rowid order,
\* the rows then sorted by path.
Plans == {"index", "scan"}

\* Symbol x comes before symbol y in the candidate query run by the plan.
SymbolBefore(d, plan, x, y) ==
    LET px == StrRank(PathOf(d, x))
        py == StrRank(PathOf(d, y))
    IN  \/ px < py
        \/ /\ px = py
           /\ IF plan = "scan" THEN x.id < y.id
              ELSE \/ StrLess(x.name, y.name)
                   \/ x.name = y.name /\ StrLess(x.kind, y.kind)
                   \/ x.name = y.name /\ x.kind = y.kind /\ IntLess(x.lineno, y.lineno)
                   \/ x.name = y.name /\ x.kind = y.kind /\ x.lineno = y.lineno /\ x.id < y.id

\* LEFT JOIN relations r ON r.dst_symbol_name = s.name for one symbol: a
\* row per relation that names it, in rowid order, or one row of NULLs;
\* with COALESCE(r.relation_type, 'declares') and COALESCE(r.lineno,
\* s.lineno).
SymbolRows(d, s) ==
    LET rels == Scan({r \in d.relations : r.dst_symbol_name = s.name})
    IN  IF rels = <<>>
        THEN << [path |-> PathOf(d, s), symbol |-> s.name, kind |-> s.kind,
                 relation_type |-> "declares", lineno |-> s.lineno] >>
        ELSE [k \in 1..Len(rels) |->
                 [path |-> PathOf(d, s), symbol |-> s.name, kind |-> s.kind,
                  relation_type |-> rels[k].relation_type,
                  lineno |-> IF rels[k].lineno # Null THEN rels[k].lineno ELSE s.lineno]]

\* The WHERE clause: a term is LIKE the name, the path or the destination
\* name of the relation (which is the name, or '' for the row of NULLs).
Where(row, terms) ==
    LET name == lower(Chars(row.symbol))
        path == lower(Chars(row.path))
        dst == IF row.relation_type = "declares" THEN <<>> ELSE name
    IN  \E n \in 1..Len(terms) :
            Like(name, terms[n]) \/ Like(path, terms[n]) \/ Like(dst, terms[n])

\* LIMIT n: a negative n is no limit.
Limit(rows, n) == IF n < 0 THEN rows ELSE Prefix(rows, n)

\* raw_rows: the rows of the candidate query.
Candidates(d, terms, limit, plan) ==
    LET S == Joined(d)
        pos == [s \in S |-> 1 + Cardinality({x \in S : SymbolBefore(d, plan, x, s)})]
        symbols == [k \in 1..Cardinality(S) |-> CHOOSE s \in S : pos[s] = k]
        rows == Concat([k \in 1..Len(symbols) |-> SymbolRows(d, symbols[k])])
    IN  Limit(SelectSeq(rows, LAMBDA row : Where(row, terms)), CandidateFactor * limit)

\* The score of a row without its doubling of a match in the symbol name.
Score_flat(row, terms) ==
    LET hay == lower(Chars(row.symbol) \o <<" ">> \o Chars(row.path) \o <<" ">>
                     \o Chars(row.relation_type))
        hits == {n \in 1..Len(terms) : Contains(hay, terms[n])}
    IN  Cardinality(hits) + (IF row.relation_type \in {"calls", "imports"} THEN 2 ELSE 0)

\* The score of a candidate row: per term found in hay, 2 when it is in
\* the symbol name and 1 when not; 2 more for a calls or imports row.
Score(row, terms) ==
    LET hay == lower(Chars(row.symbol) \o <<" ">> \o Chars(row.path) \o <<" ">>
                     \o Chars(row.relation_type))
        hits == {n \in 1..Len(terms) : Contains(hay, terms[n])}
        named == {n \in hits : Contains(lower(Chars(row.symbol)), terms[n])}
    IN  2 * Cardinality(named) + Cardinality(hits \ named)
          + (IF row.relation_type \in {"calls", "imports"} THEN 2 ELSE 0)

\* scored.sort without reverse=True.
Ranking_ascending(raw_rows, terms) ==
    LET n == Len(raw_rows)
        score == [i \in 1..n |-> Score(raw_rows[i], terms)]
        pos == [i \in 1..n |-> 1 + Cardinality({j \in 1..n :
                        \/ score[j] < score[i]
                        \/ score[j] = score[i] /\ j < i})]
    IN  [k \in 1..n |-> CHOOSE i \in 1..n : pos[i] = k]

\* No sort at all.
Ranking_unsorted(raw_rows, terms) == [k \in 1..Len(raw_rows) |-> k]

\* scored.sort(key=score, reverse=True): the positions of raw_rows by
\* descending score, rows of one score in the order they had.
Ranking(raw_rows, terms) ==
    LET n == Len(raw_rows)
        score == [i \in 1..n |-> Score(raw_rows[i], terms)]
        pos == [i \in 1..n |-> 1 + Cardinality({j \in 1..n :
                        \/ score[j] > score[i]
                        \/ score[j] = score[i] /\ j < i})]
    IN  [k \in 1..n |-> CHOOSE i \in 1..n : pos[i] = k]

\* seq[:n]: all but the last -n entries for a negative n.
Slice(seq, n) ==
    IF n >= 0 THEN Prefix(seq, n)
    ELSE IF Len(seq) + n <= 0 THEN <<>> ELSE SubSeq(seq, 1, Len(seq) + n)

\* The listing in rowid order, without ORDER BY s.name.
Listed_unordered(d, tag, limit) ==
    LET symbols == Scan(Joined(d))
    IN  Limit([k \in 1..Len(symbols) |->
                  [path |-> PathOf(d, symbols[k]), symbol |-> symbols[k].name,
                   kind |-> symbols[k].kind, relation_type |-> tag,
                   lineno |-> symbols[k].lineno]], limit)

\* The listing without rows.
Listed_nothing(d, tag, limit) == <<>>

\* The 'top' and the 'fallback' listing: the symbols that have a File row,
\* ORDER BY s.name (symbols of one name in rowid order), LIMIT limit.
Listed(d, tag, limit) ==
    LET S == Joined(d)
        pos == [s \in S |-> 1 + Cardinality({x \in S :
                        StrLess(x.name, s.name) \/ (x.name = s.name /\ x.id < s.id)})]
        symbols == [k \in 1..Cardinality(S) |-> CHOOSE s \in S : pos[s] = k]
    IN  Limit([k \in 1..Len(symbols) |->
                  [path |-> PathOf(d, symbols[k]), symbol |-> symbols[k].name,
                   kind |-> symbols[k].kind, relation_type |-> tag,
                   lineno |-> symbols[k].lineno]], limit)

\* _collect_evidence, the candidate query run by the given plan.
collect_evidence(d, question, limit, plan) ==
    LET terms == extract_terms(question)
        raw_rows == Candidates(d, terms, limit, plan)
        ranking == Slice(Ranking(raw_rows, terms), limit)
        rows == IF terms = <<>> THEN Listed(d, "top", limit)
                ELSE [k \in 1..Len(ranking) |-> raw_rows[ranking[k]]]
    IN  IF rows = <<>> THEN Listed(d, "fallback", Min({limit, FallbackLimit})) ELSE rows

\* A store the retriever is pointed at.
InitEvidence ==
    /\ db \in EvidenceStores
    /\ committed = db
    /\ pc = "idle"
    /\ tree = <<>>
    /\ reset = TRUE
    /\ todo = {}
    /\ stats = NoStats
    /\ ret = NoRet

\* _collect_evidence is called: it opens a connection of its own, runs
\* its queries and closes the connection.
CollectEvidenceCall(question, limit, plan) ==
    /\ pc = "idle"
    /\ ret = NoRet
    /\ ret' = [op |-> "_collect_evidence", args |-> <<question, limit, plan>>, id |-> Null,
               out |-> collect_evidence(db, question, limit, plan)]
    /\ UNCHANGED <<committed, db, pc, tree, reset, todo, stats>>

NextEvidence ==
    \/ /\ ret = NoRet
       /\ \E question \in Asked, limit \in EvidenceLimits, plan \in Plans :
             CollectEvidenceCall(question, limit, plan)
    \/ ResultTaken

SpecEvidence == InitEvidence /\ [][NextEvidence]_vars

\* The characters of the model in ascending order of their code.
Ascii ==
    <<" ", ".", "0", "1", "2", "3", "4", "5", "6", "7", "8", "9", "A", "B", "C",
    "D", "E", "F", "G", "H", "I", "J", "K", "L", "M", "N", "O", "P", "Q", "R",
    "S", "T", "U", "V", "W", "X", "Y", "Z", "_", "a", "b", "c", "d", "e", "f",
    "g", "h", "i", "j", "k", "l", "m", "n", "o", "p", "q", "r", "s", "t", "u",
    "v", "w", "x", "y", "z">>

CharCode == [c \in {Ascii[i] : i \in 1..Len(Ascii)} |-> CHOOSE i \in 1..Len(Ascii) : Ascii[i] = c]

\* Text a comes before text b, character code by character code.
TextLess(a, b) ==
    \E i \in 1..(Len(b)) :
        /\ i <= Len(a) + 1
        /\ \A k \in 1..(i - 1) : a[k] = b[k]
        /\ i = Len(a) + 1 \/ CharCode[a[i]] < CharCode[b[i]]

\* The row a listing gives for symbol s.
ListingRow(d, s, tag) ==
    [path |-> PathOf(d, s), symbol |-> s.name, kind |-> s.kind, relation_type |-> tag,
     lineno |-> s.lineno]

\* out lists the first n symbols of the store in ascending order of name,
\* each once and tagged tag.
IsNameListing(d, out, tag, n) ==
    LET count(row) == Cardinality({s \in d.symbols : ListingRow(d, s, tag) = row})
        left == {s \in d.symbols :
                    Occurrences(out, ListingRow(d, s, tag)) < count(ListingRow(d, s, tag))}
    IN  /\ Len(out) = Min({n, Cardinality(d.symbols)})
        /\ \A k \in 1..Len(out) : Occurrences(out, out[k]) <= count(out[k])
        /\ \A i, j \in 1..Len(out) :
              i < j => ~TextLess(Chars(out[j].symbol), Chars(out[i].symbol))
        /\ \A s \in left : \A k \in 1..Len(out) :
              ~TextLess(Chars(s.name), Chars(out[k].symbol))

\* The rows of the join of the candidate query, before its WHERE clause.
JoinRowSet(d) ==
    UNION {{SymbolRows(d, s)[k] : k \in 1..Len(SymbolRows(d, s))} : s \in Joined(d)}

\* C12: whatever the question, _collect_evidence (asked for at least one
\* row) returns an empty list only when the store has no Symbol row.  With
\* terms and a row that matches the query, it returns candidate rows with
\* their relation types; with terms and no such row it returns the first
\* min(limit, 10) symbols in name order, tagged 'fallback'.
C12_EmptyOnlyWithoutSymbols ==
    ret.op = "_collect_evidence" =>
        LET terms == extract_terms(ret.args[1])
            limit == ret.args[2]
            qualifying == {row \in JoinRowSet(db) : Where(row, terms)}
        IN  /\ ret.out = <<>> => db.symbols = {}
            /\ (terms # <<>> /\ qualifying # {}) =>
                  /\ ret.out # <<>>
                  /\ \A k \in 1..Len(ret.out) : ret.out[k] \in qualifying
            /\ (terms # <<>> /\ qualifying = {} /\ db.symbols # {}) =>
                  IsNameListing(db, ret.out, "fallback", Min({limit, 10}))

\* C12 witness: a question with terms that match nothing is asked, with a
\* limit above 10, of a store with more than 10 symbols, and 10 rows
\* tagged 'fallback' come back.
C12_Witness ==
    /\ ret.op = "_collect_evidence"
    /\ extract_terms(ret.args[1]) # <<>>
    /\ ret.args[2] > 10
    /\ Cardinality(db.symbols) > 10
    /\ Len(ret.out) = 10
    /\ \A k \in 1..Len(ret.out) : ret.out[k].relation_type = "fallback"

\* C13: for a question without terms and a store with at least one
\* symbol, _collect_evidence (asked for at least one row) returns the first
\* limit symbols in ascending order of name, tagged 'top', and at least one.
C13_NoTermsListsTopByName ==
    (ret.op = "_collect_evidence" /\ extract_terms(ret.args[1]) = <<>> /\ db.symbols # {}) =>
        /\ IsNameListing(db, ret.out, "top", ret.args[2])
        /\ \A k \in 1..Len(ret.out) : ret.out[k].relation_type = "top"
        /\ Len(ret.out) <= ret.args[2]
        /\ ret.out # <<>>

\* C13 witness: a question that is a stop word is asked of a store whose
\* symbols were not inserted in the order of their names, and the limit
\* cuts the listing.
C13_Witness ==
    /\ ret.op = "_collect_evidence"
    /\ ret.args[1] # <<>>
    /\ extract_terms(ret.args[1]) = <<>>
    /\ Len(ret.out) = ret.args[2]
    /\ Cardinality(db.symbols) > ret.args[2]
    /\ \E s, t \in db.symbols : s.id < t.id /\ TextLess(Chars(t.name), Chars(s.name))
    /\ \E i, j \in 1..Len(ret.out) : ret.out[i].symbol # ret.out[j].symbol

\* What one term adds to the score of a row: 2 when it is part of the
\* lower-cased symbol name, else 1 when it is part of the lower-cased text
\* 'name path relation_type', else 0.
TermScore(row, term) ==
    IF Contains(lower(Chars(row.symbol)), term) THEN 2
    ELSE IF Contains(lower(Chars(row.symbol) \o <<" ">> \o Chars(row.path) \o <<" ">>
                           \o Chars(row.relation_type)), term) THEN 1
    ELSE 0

\* The score of a row: the sum over the terms, and 2 for a calls or
\* imports row.
RowScore(row, terms) ==
    SumOver([n \in 1..Len(terms) |-> TermScore(row, terms[n])], 1..Len(terms))
        + (IF row.relation_type \in {"calls", "imports"} THEN 2 ELSE 0)

\* The place of a row among the rows the query returned.
PlaceIn(rows, row) == CHOOSE k \in 1..Len(rows) : rows[k] = row

\* C15: when terms exist and a row qualifies, _collect_evidence returns at
\* most limit rows, in non-increasing order of score, rows of one score in
\* the order in which the query returned them.
C15_RankedByScoreStable ==
    ret.op = "_collect_evidence" =>
        LET terms == extract_terms(ret.args[1])
            raw_rows == Candidates(db, terms, ret.args[2], ret.args[3])
        IN  (terms # <<>> /\ raw_rows # <<>>) =>
                /\ Len(ret.out) <= ret.args[2]
                /\ \A i, j \in 1..Len(ret.out) : i < j =>
                      /\ RowScore(ret.out[i], terms) >= RowScore(ret.out[j], terms)
                      /\ RowScore(ret.out[i], terms) = RowScore(ret.out[j], terms) =>
                            PlaceIn(raw_rows, ret.out[i]) < PlaceIn(raw_rows, ret.out[j])

\* C15 witness: the result holds two rows of one score and rows of
\* different scores, one of which the query returned after the other.
C15_Witness ==
    /\ ret.op = "_collect_evidence"
    /\ LET terms == extract_terms(ret.args[1])
           raw_rows == Candidates(db, terms, ret.args[2], ret.args[3])
       IN  /\ terms # <<>> /\ raw_rows # <<>>
           /\ \E i, j \in 1..Len(ret.out) :
                 i < j /\ RowScore(ret.out[i], terms) = RowScore(ret.out[j], terms)
           /\ \E i, j \in 1..Len(ret.out) :
                 /\ i < j /\ RowScore(ret.out[i], terms) > RowScore(ret.out[j], terms)
                 /\ PlaceIn(raw_rows, ret.out[i]) > PlaceIn(raw_rows, ret.out[j])

\* Candidate rows x and y have one relation type, term is part of the
\* symbol name of x and, for y, part of the path and not of the symbol
\* name, and every other term adds the same to both.
NameAgainstPath(x, y, terms, term) ==
    /\ x.relation_type = y.relation_type
    /\ Contains(lower(Chars(x.symbol)), term)
    /\ Contains(lower(Chars(y.path)), term)
    /\ ~Contains(lower(Chars(y.symbol)), term)
    /\ \A n \in 1..Len(terms) :
          terms[n] # term => TermScore(x, terms[n]) = TermScore(y, terms[n])

\* C16: of two candidate rows that differ only in that a term is part of
\* the symbol name of the first and of the path alone of the second, the
\* second is in the result only with the first above it.
C16_NameMatchAbovePathMatch ==
    ret.op = "_collect_evidence" =>
        LET terms == extract_terms(ret.args[1])
            raw_rows == Candidates(db, terms, ret.args[2], ret.args[3])
        IN  \A i, j \in 1..Len(raw_rows) : \A n \in 1..Len(terms) :
                NameAgainstPath(raw_rows[i], raw_rows[j], terms, terms[n]) =>
                    \A k \in 1..Len(ret.out) : ret.out[k] = raw_rows[j] =>
                        \E m \in 1..(k - 1) : ret.out[m] = raw_rows[i]

\* C16 witness: such a pair is in the result, and the query returned its
\* second row before its first.
C16_Witness ==
    /\ ret.op = "_collect_evidence"
    /\ LET terms == extract_terms(ret.args[1])
           raw_rows == Candidates(db, terms, ret.args[2], ret.args[3])
       IN  \E i, j \in 1..Len(raw_rows) : \E n \in 1..Len(terms) :
               /\ NameAgainstPath(raw_rows[i], raw_rows[j], terms, terms[n])
               /\ j < i
               /\ \E k, m \in 1..Len(ret.out) :
                     m < k /\ ret.out[k] = raw_rows[j] /\ ret.out[m] = raw_rows[i]

\* A term is a case-insensitive part of the symbol name, the file path or
\* the joined relation destination name of the row.
Qualifies(row, terms) ==
    \E n \in 1..Len(terms) :
        \/ Contains(lower(Chars(row.symbol)), terms[n])
        \/ Contains(lower(Chars(row.path)), terms[n])

\* The rows of a sequence.
RowsOf(rows) == {rows[k] : k \in 1..Len(rows)}

\* C20 (as claimed): when terms exist, the rows returned are the top limit
\* rows by score among all the rows that qualify: no qualifying row left
\* out has a higher score than a row returned, however many rows qualify.
\* More than 3 * limit qualifying rows break this.
C20_TopAmongAllQualifying ==
    ret.op = "_collect_evidence" =>
        LET terms == extract_terms(ret.args[1])
            qualifying == {row \in JoinRowSet(db) : Qualifies(row, terms)}
        IN  (terms # <<>> /\ qualifying # {}) =>
                \A row \in qualifying \ RowsOf(ret.out) : \A k \in 1..Len(ret.out) :
                    RowScore(row, terms) <= RowScore(ret.out[k], terms)

\* C20 (amended): when terms exist, the rows returned are the top limit
\* rows by score among the candidates, and the candidates are the first
\* 3 * limit rows, in ascending order of path, of the rows that match the
\* query: no candidate left out has a higher score than a row returned.
C20_TopAmongCandidates ==
    ret.op = "_collect_evidence" =>
        LET terms == extract_terms(ret.args[1])
            limit == ret.args[2]
            matching == {row \in JoinRowSet(db) : Where(row, terms)}
            candidates == RowsOf(Candidates(db, terms, limit, ret.args[3]))
        IN  (terms # <<>> /\ matching # {}) =>
                /\ candidates \subseteq matching
                /\ Cardinality(candidates) = Min({3 * limit, Cardinality(matching)})
                /\ \A row \in matching \ candidates : \A c \in candidates :
                      ~TextLess(Chars(row.path), Chars(c.path))
                /\ RowsOf(ret.out) \subseteq candidates
                /\ Len(ret.out) = Min({limit, Cardinality(candidates)})
                /\ Cardinality(RowsOf(ret.out)) = Len(ret.out)
                /\ \A row \in candidates \ RowsOf(ret.out) : \A k \in 1..Len(ret.out) :
                      RowScore(row, terms) <= RowScore(ret.out[k], terms)

\* C20 witness: more than 3 * limit rows match, a candidate is left out
\* of the result, and a matching row that is no candidate has a higher
\* score than a row returned.
C20_Witness ==
    /\ ret.op = "_collect_evidence"
    /\ LET terms == extract_terms(ret.args[1])
           limit == ret.args[2]
           matching == {row \in JoinRowSet(db) : Where(row, terms)}
           candidates == RowsOf(Candidates(db, terms, limit, ret.args[3]))
       IN  /\ terms # <<>>
           /\ Cardinality(matching) > 3 * limit
           /\ candidates \ RowsOf(ret.out) # {}
           /\ \E row \in matching \ candidates : \E k \in 1..Len(ret.out) :
                 RowScore(row, terms) > RowScore(ret.out[k], terms)

\* ------------------------------------------------ clients of the queries

\* The questions the clients of the store ask: none, and each piece alone.
ClientQuestions == {<<>>} \cup AskedPieces

\* A client calls insert_relation on a connection of its own and commits.
InsertRelationCall(file_id, dst_symbol_name, relation_type, lineno, src_symbol_id) ==
    /\ pc = "idle"
    /\ ret = NoRet
    /\ Cardinality(db.relations) < MaxRelations
    /\ LET d == insert_relation(db, file_id, dst_symbol_name, relation_type, lineno,
                                src_symbol_id) IN
         /\ db' = d
         /\ committed' = d
    /\ ret' = [op |-> "insert_relation",
               args |-> <<file_id, dst_symbol_name, relation_type, lineno, src_symbol_id>>,
               id |-> Null]
    /\ UNCHANGED <<pc, tree, reset, todo, stats>>

\* A client runs a read operation of graph.py on a connection of its own
\* (SELECT statements only), or _collect_evidence.
CallersOfCall(symbol_name) ==
    /\ pc = "idle"
    /\ ret = NoRet
    /\ ret' = [op |-> "callers_of", args |-> <<symbol_name>>, id |-> Null,
               out |-> callers_of(db, symbol_name)]
    /\ UNCHANGED <<committed, db, pc, tree, reset, todo, stats>>

ImpactsOfCall(symbol_name) ==
    /\ pc = "idle"
    /\ ret = NoRet
    /\ ret' = [op |-> "impacts_of", args |-> <<symbol_name>>, id |-> Null,
               out |-> impacts_of(db, symbol_name)]
    /\ UNCHANGED <<committed, db, pc, tree, reset, todo, stats>>

TopSymbolsCall(limit) ==
    /\ pc = "idle"
    /\ ret = NoRet
    /\ ret' = [op |-> "top_symbols", args |-> <<limit>>, id |-> Null,
               out |-> top_symbols(db, limit)]
    /\ UNCHANGED <<committed, db, pc, tree, reset, todo, stats>>

SummaryStatsCall ==
    /\ pc = "idle"
    /\ ret = NoRet
    /\ ret' = [op |-> "summary_stats", args |-> <<>>, id |-> Null, out |-> summary_stats(db)]
    /\ UNCHANGED <<committed, db, pc, tree, reset, todo, stats>>

NextQueries ==
    \/ /\ ret = NoRet
       /\ \/ \E f \in db.files, relation_type \in {"calls", "imports"} :
                InsertRelationCall(f.id, "f", relation_type, 1, Null)
          \/ \E symbol_name \in {"f", "Cart"} : CallersOfCall(symbol_name)
          \/ \E symbol_name \in {"f", "Cart"} : ImpactsOfCall(symbol_name)
          \/ \E limit \in 0..MaxLimit : TopSymbolsCall(limit)
          \/ SummaryStatsCall
          \/ \E question \in ClientQuestions, plan \in Plans :
                CollectEvidenceCall(question, DefaultLimit, plan)
    \/ ResultTaken

SpecQueries == InitEvidence /\ [][NextQueries]_vars

\* The names of the read operations.
ReadOps == {"callers_of", "impacts_of", "top_symbols", "summary_stats", "_collect_evidence"}

\* C18: a call of callers_of, impacts_of, top_symbols, summary_stats or
\* _collect_evidence leaves the three tables as they were, in the
\* connection and on disk; a call of insert_relation leaves the files and
\* symbols tables as they were, keeps every relation row and adds exactly
\* one, which holds the arguments of the call.
C18_ReadsKeepStoreInsertRelationAppends ==
    [][/\ (ret = NoRet /\ ret'.op \in ReadOps) => (db' = db /\ committed' = committed)
       /\ (ret = NoRet /\ ret'.op = "insert_relation") =>
             /\ db'.files = db.files
             /\ db'.symbols = db.symbols
             /\ db.relations \subseteq db'.relations
             /\ Cardinality(db'.relations) = Cardinality(db.relations) + 1
             /\ \A r \in db'.relations \ db.relations :
                   <<r.file_id, r.dst_symbol_name, r.relation_type, r.lineno,
                     r.src_symbol_id>> = ret'.args]_vars

\* C18 witness: insert_relation has returned in a store with symbols and
\* files, which now holds the relation of its call twice.
C18_Witness ==
    /\ ret.op = "insert_relation"
    /\ db.symbols # {} /\ Cardinality(db.files) = 2
    /\ Cardinality({r \in db.relations :
          <<r.file_id, r.dst_symbol_name, r.relation_type, r.lineno, r.src_symbol_id>>
              = ret.args}) = 2

\* ------------------------------------------------------------- answers

\* _heuristic_answer lists the first items of the evidence.
HeuristicItems == 12

\* evidence_paths are the paths of the first items of the evidence.
PathItems == 15

\* A text is a sequence of pieces.  A piece is a stretch of characters
\* that EMAIL_RE and CARD_RE match as a whole ("email", "card") or in no
\* part ("text": literal characters; "chars": a question, character by
\* character; "int": a number in decimal, the same in every answer).
Lit(s) == [tag |-> "text", text |-> s, chars |-> <<>>, n |-> 0]

Email(s) == [tag |-> "email", text |-> s, chars |-> <<>>, n |-> 0]

Card(s) == [tag |-> "card", text |-> s, chars |-> <<>>, n |-> 0]

Typed(question) == [tag |-> "chars", text |-> "", chars |-> question, n |-> 0]

Num(n) == [tag |-> "int", text |-> "", chars |-> <<>>, n |-> n]

NL == Lit("\n")

\* redact_pii: EMAIL_RE.sub, then CARD_RE.sub.
redact_pii(text) ==
    LET mailed == [i \in 1..Len(text) |->
                      IF text[i].tag = "email" THEN Lit("[REDACTED_EMAIL]") ELSE text[i]]
    IN  [i \in 1..Len(mailed) |->
            IF mailed[i].tag = "card" THEN Lit("[REDACTED_CARD]") ELSE mailed[i]]

\* SENSITIVE_PATTERNS, in the order of the dict.
SENSITIVE_PATTERNS ==
    <<[key |-> "security",
        patterns |-> <<<<"b", "r", "e", "a", "c", "h">>,
                       <<"e", "x", "p", "l", "o", "i", "t">>,
                       <<"v", "u", "l", "n", "e", "r", "a", "b", "i", "l", "i", "t", "y">>,
                       <<"t", "o", "k", "e", "n", " ", "l", "e", "a", "k">>>>],
       [key |-> "legal",
        patterns |-> <<<<"l", "a", "w", "s", "u", "i", "t">>,
                       <<"l", "e", "g", "a", "l">>,
                       <<"g", "d", "p", "r">>,
                       <<"c", "o", "m", "p", "l", "i", "a", "n", "c", "e">>>>],
       [key |-> "payments",
        patterns |-> <<<<"c", "h", "a", "r", "g", "e", "b", "a", "c", "k">>,
                       <<"r", "e", "f", "u", "n", "d", " ", "d", "i", "s", "p", "u", "t", "e">>,
                       <<"s", "t", "o", "l", "e", "n", " ", "c", "a", "r", "d">>>>]>>

\* detect_policy_flags
detect_policy_flags(question) ==
    LET q == lower(question)
        hit == {k \in 1..Len(SENSITIVE_PATTERNS) :
                  \E i \in 1..Len(SENSITIVE_PATTERNS[k].patterns) :
                      Contains(q, SENSITIVE_PATTERNS[k].patterns[i])}
        nth == [k \in hit |-> Cardinality({j \in hit : j <= k})]
    IN  [i \in 1..Cardinality(hit) |-> SENSITIVE_PATTERNS[CHOOSE k \in hit : nth[k] = i].key]

\* The grave accent, a character a string of this module cannot hold.
Tick == [tag |-> "text", text |-> "U+0060", chars |-> <<>>, n |-> 0]

\* One line of _heuristic_answer for an evidence item.
ItemLine(item) ==
    <<Lit("- "), Tick, Lit(item.symbol), Tick, Lit(" ("), Lit(item.kind), Lit(") via "),
      Tick, Lit(item.relation_type), Tick, Lit(" in "), Tick, Lit(item.path)>>
    \o (IF item.lineno # Null THEN <<Lit(":"), Num(item.lineno)>> ELSE <<>>)
    \o <<Tick>>

\* _heuristic_answer: the lines joined by "\n".
heuristic_answer(question, evidence) ==
    IF evidence = <<>>
    THEN <<Lit("No indexed evidence found. Run indexing first or refine your question.")>>
    ELSE LET items == Prefix(evidence, HeuristicItems)
         IN  <<Lit("Direct answer (evidence-grounded)"), NL,
               Lit("Question: "), Typed(question), NL,
               NL,
               Lit("Relevant components:")>>
             \o Concat([k \in 1..Len(items) |-> <<NL>> \o ItemLine(items[k])])
             \o <<NL, NL, Lit("Uncertainty: heuristic mode. Use --llm for richer synthesis.")>>

\* The classes of Python's exception hierarchy that the LLM call can raise,
\* each with its base class.
Bases ==
    [c \in {"Exception", "RuntimeError", "LookupError", "KeyError", "OSError", "URLError",
            "KeyboardInterrupt", "SystemExit"} |->
        CASE c \in {"Exception", "KeyboardInterrupt", "SystemExit"} -> "BaseException"
          [] c \in {"RuntimeError", "LookupError", "OSError"} -> "Exception"
          [] c = "KeyError" -> "LookupError"
          [] c = "URLError" -> "OSError"]

RECURSIVE issubclass(_, _)
issubclass(class, base) ==
    \/ class = base
    \/ class \in DOMAIN Bases /\ issubclass(Bases[class], base)

\* An except clause for RuntimeError alone.
Catches_runtime_error(class) == issubclass(class, "RuntimeError")

\* except Exception
Catches(class) == issubclass(class, "Exception")

\* What _llm_answer does in a call: it returns the content of the reply,
\* or it raises (no key set, the request fails, the reply lacks a field,
\* the user interrupts the request, the interpreter is told to exit).
NoLlm == [kind |-> "unused", class |-> "", message |-> <<>>, text |-> <<>>]

Replies == {<<Lit("ok")>>, <<NL, Lit("ok"), Lit(" ")>>, <<Lit("ask "), Email("a@b.io")>>}

Messages ==
    {<<Lit("CBG_LLM_API_KEY is not set")>>,
     <<Lit("mail "), Email("a@b.io")>>,
     <<Lit("card "), Card("4111 1111 1111 1111")>>}

Raised == {"RuntimeError", "URLError", "KeyError", "KeyboardInterrupt", "SystemExit"}

LlmOutcomes ==
    {[kind |-> "returns", class |-> "", message |-> <<>>, text |-> t] : t \in Replies}
    \cup {[kind |-> "raises", class |-> c, message |-> m, text |-> <<>>] :
             c \in Raised, m \in Messages}

\* str.strip() of a reply.
IsSpace(piece) == piece \in {NL, Lit(" ")}

RECURSIVE lstrip(_)
lstrip(text) ==
    IF text # <<>> /\ IsSpace(Head(text)) THEN lstrip(Tail(text)) ELSE text

RECURSIVE rstrip(_)
rstrip(text) ==
    IF text # <<>> /\ IsSpace(text[Len(text)])
    THEN rstrip(SubSeq(text, 1, Len(text) - 1)) ELSE text

strip(text) == rstrip(lstrip(text))

\* sorted({e.path for e in evidence[:15]})
evidence_paths(evidence) ==
    LET items == Prefix(evidence, PathItems)
        S == {items[k].path : k \in 1..Len(items)}
        pos == [x \in S |-> 1 + Cardinality({y \in S : StrLess(y, x)})]
    IN  [k \in 1..Cardinality(S) |-> CHOOSE x \in S : pos[x] = k]

NoException == ""

NoResult ==
    [answer |-> <<>>, evidence_count |-> 0, confidence |-> 0, needs_human |-> FALSE,
     policy_flags |-> <<>>, evidence_paths |-> <<>>, owner_suggestions |-> <<>>,
     next_actions |-> <<>>]

\* The confidence of answer_question_with_metadata, in hundredths.
Confidence(evidence_count, use_llm, raised_by_llm, flagged) ==
    LET estimated == Min({95, 25 + 5 * Min({evidence_count, 10})})
        asked == IF use_llm THEN Min({98, estimated + 8}) ELSE estimated
        lowered == IF raised_by_llm THEN Max({30, asked - 20}) ELSE asked
    IN  IF flagged THEN Min({lowered, 50}) ELSE lowered

\* The answer of answer_question_with_metadata before redaction.
Answer(question, use_llm, llm, evidence) ==
    IF use_llm /\ llm.kind = "raises"
    THEN <<Lit("LLM call failed (")>> \o llm.message \o <<Lit(").\n\n")>>
         \o heuristic_answer(question, evidence)
    ELSE IF use_llm THEN strip(llm.text)
    ELSE heuristic_answer(question, evidence)

\* The dict answer_question_with_metadata returns.
Result(answer, evidence, confidence, needs_human, flags) ==
    [answer |-> redact_pii(answer),
     evidence_count |-> Len(evidence),
     confidence |-> confidence,
     needs_human |-> needs_human,
     policy_flags |-> flags,
     evidence_paths |-> evidence_paths(evidence),
     owner_suggestions |-> <<>>,
     next_actions |-> <<IF needs_human THEN "Escalate for human review"
                         ELSE "Respond with cited components",
                        "Inspect top evidence paths for confirmation">>]

\* The line answer_question_with_metadata appends to the telemetry file.
Telemetry(question, evidence, confidence, needs_human, flags) ==
    [question |-> question, confidence |-> confidence, needs_human |-> needs_human,
     evidence_count |-> Len(evidence), policy_flags |-> flags]

\* answer_question_with_metadata from the evidence on.
Respond(question, use_llm, llm, evidence) ==
    LET flags == detect_policy_flags(question)
        raised_by_llm == use_llm /\ llm.kind = "raises"
        confidence == Confidence(Len(evidence), use_llm, raised_by_llm, flags # <<>>)
        needs_human == confidence < 45 \/ Len(evidence) = 0 \/ flags # <<>>
    IN  IF raised_by_llm /\ ~Catches(llm.class)
        THEN [raised |-> llm.class, out |-> NoResult, appended |-> <<>>]
        ELSE [raised |-> NoException,
              out |-> Result(Answer(question, use_llm, llm, evidence), evidence,
                             confidence, needs_human, flags),
              appended |-> <<Telemetry(question, evidence, confidence, needs_human,
                                       flags)>>]

\* answer_question_with_metadata without repo_path, the LLM call behaving
\* as given: the exception that leaves the call, the dict returned and the
\* lines appended to the telemetry file.
answer_question_with_metadata(d, question, use_llm, llm, plan) ==
    Respond(question, use_llm, llm, collect_evidence(d, question, DefaultLimit, plan))

\* The questions put to answer_question_with_metadata: those of the
\* clients and one that touches a sensitive pattern.
AnswerQuestions == ClientQuestions \cup {<<"g", "d", "p", "r">>}

AnswerQuestionCall(question, use_llm, llm, plan) ==
    /\ pc = "idle"
    /\ ret = NoRet
    /\ LET r == answer_question_with_metadata(db, question, use_llm, llm, plan) IN
         ret' = [op |-> "answer_question_with_metadata",
                 args |-> <<question, use_llm, llm, plan>>, id |-> Null,
                 raised |-> r.raised, out |-> r.out, appended |-> r.appended]
    /\ UNCHANGED <<committed, db, pc, tree, reset, todo, stats>>

NextAnswer ==
    \/ /\ ret = NoRet
       /\ \E question \in AnswerQuestions, plan \in Plans :
             \/ AnswerQuestionCall(question, FALSE, NoLlm, plan)
             \/ \E llm \in LlmOutcomes : AnswerQuestionCall(question, TRUE, llm, plan)
    \/ ResultTaken

SpecAnswer == InitEvidence /\ [][NextAnswer]_vars

\* answer_question_with_metadata was called with use_llm=true and the LLM
\* call raised.
LlmRaised ==
    /\ ret.op = "answer_question_with_metadata"
    /\ ret.args[2]
    /\ ret.args[3].kind = "raises"

\* The call returned, its answer is 'LLM call failed (...)' followed by
\* the answer of the call with use_llm=false, and evidence_count and
\* evidence_paths are those of that call.
FellBack ==
    LET base == answer_question_with_metadata(db, ret.args[1], FALSE, NoLlm, ret.args[4]).out
        answer == ret.out.answer
    IN  /\ ret.raised = NoException
        /\ answer # <<>> /\ answer[1] = Lit("LLM call failed (")
        /\ \E k \in 2..Len(answer) :
              /\ answer[k] = Lit(").\n\n")
              /\ \A j \in 2..(k - 1) : answer[j].tag \notin {"email", "card"}
              /\ SubSeq(answer, k + 1, Len(answer)) = base.answer
        /\ ret.out.evidence_count = base.evidence_count
        /\ ret.out.evidence_paths = base.evidence_paths

\* C19 as stated: whenever answer_question_with_metadata is called with
\* use_llm=true and the LLM call raises any exception, the exception does
\* not propagate and the call falls back to the heuristic answer.
C19_AnyExceptionFallsBack == LlmRaised => FellBack

\* C19: whenever answer_question_with_metadata is called with use_llm=true
\* and the LLM call raises an exception of class Exception or of a subclass
\* of it, the exception does not propagate: the returned answer is
\* 'LLM call failed (...)' followed by the heuristic answer built from the
\* same evidence, and evidence_count and evidence_paths are the same as
\* for the call with use_llm=false.
C19_ExceptionFallsBack ==
    (LlmRaised /\ issubclass(ret.args[3].class, "Exception")) => FellBack

\* C19 witness: the request failed with a URLError whose message holds a
\* mail address, and the call returned an answer that lists evidence.
C19_Witness ==
    /\ LlmRaised
    /\ ret.args[3].class = "URLError"
    /\ \E i \in 1..Len(ret.args[3].message) : ret.args[3].message[i].tag = "email"
    /\ ret.raised = NoException
    /\ ret.out.evidence_count > 1
    /\ Len(ret.out.evidence_paths) > 1
    /\ Len(ret.out.answer) > Len(ret.args[3].message) + 3

\* ------------------------------------------- runs over several languages

LanguagePaths == {"a.py", "c.js", "c.go"}

\* The file contents of a tree of several languages (a line-pattern
\* analyzer reads "def" and "class" lines as declarations, "import" lines
\* as imports, and passes over the others and over the indentation):
\*  1  two functions named g, the first of which calls f, then a call at
\*     module scope
\*  2  class f(g) holding a method g that holds an import
LanguageFiles == <<
    File(TRUE, <<Line("def", "g", 0, NoName), Line("call", "f", 1, NoName),
                 Line("def", "g", 0, NoName), Line("call", "f", 0, NoName)>>),
    File(TRUE, <<Line("class", "f", 0, "g"), Line("def", "g", 1, NoName),
                 Line("import", "m", 2, NoName)>>) >>

\* The trees of at most two files.
LanguageTrees ==
    UNION {[S -> {LanguageFiles[i] : i \in 1..Len(LanguageFiles)}] :
              S \in {T \in SUBSET LanguagePaths : Cardinality(T) <= 2}}

NextLanguages ==
    \/ \E t \in LanguageTrees, r \in BOOLEAN : Begin(t, r)
    \/ DeleteRelationsStep
    \/ DeleteSymbolsStep
    \/ DeleteFilesStep
    \/ ResetCommit
    \/ \E path \in LanguagePaths : IndexFileStep(path)
    \/ FinalCommit
    \/ Return
    \/ Interrupt

SpecLanguages == Init /\ [][NextLanguages]_vars

\* Every relation row of d with a src_symbol_id refers to a symbol row of
\* d that belongs to the file of the relation.
OriginsStored(d) ==
    \A r \in d.relations :
        r.src_symbol_id # Null =>
            \E s \in d.symbols : s.id = r.src_symbol_id /\ s.file_id = r.file_id

\* The relation rows of e that d lacks, in the order of their insertion.
AddedRelations(d, e) ==
    LET added == e.relations \ d.relations
        pos == [r \in added |-> 1 + Cardinality({x \in added : x.id < r.id})]
    IN  [k \in 1..Cardinality(added) |-> CHOOSE r \in added : pos[r] = k]

\* The row stands for the relation the analyzer emitted: with an
\* originating name it refers to a symbol row of store e, of the file of
\* the relation and of that name; without one its src_symbol_id is null.
OriginKept(e, row, emitted) ==
    /\ <<row.dst_symbol_name, row.relation_type, row.lineno>>
          = <<emitted.dst_symbol_name, emitted.relation_type, emitted.lineno>>
    /\ IF emitted.src_symbol_name = NoName
       THEN row.src_symbol_id = Null
       ELSE \E s \in e.symbols :
               /\ s.id = row.src_symbol_id
               /\ s.file_id = row.file_id
               /\ s.name = emitted.src_symbol_name

\* C21: in every store state of a run of index_repository, and in every
\* committed state, every relation row with a non-null src_symbol_id
\* refers to an existing symbol row of the file of the relation; the
\* iteration over a file stores one row per relation the analyzer emitted,
\* which, when the analyzer emitted an originating name, refers to a symbol
\* row of that file and of that name and, when it emitted none, has a null
\* src_symbol_id; the rows of a JavaScript, TypeScript, Go or Rust file
\* all have a null src_symbol_id.
C21_OriginsResolveWithinFile ==
    /\ [](OriginsStored(db) /\ OriginsStored(committed))
    /\ [][(pc = "files" /\ pc' = "files" /\ todo' # todo) =>
            LET path == CHOOSE p \in todo : p \notin todo'
                emitted == analyze_file(path, tree[path]).relations
                rows == AddedRelations(db, db')
                file == CHOOSE f \in db'.files : f.path = path
            IN  /\ Len(rows) = Len(emitted)
                /\ \A k \in 1..Len(rows) :
                      /\ rows[k].file_id = file.id
                      /\ OriginKept(db', rows[k], emitted[k])
                      /\ file.language # "python" => rows[k].src_symbol_id = Null]_vars

\* C21 witness: a committed store holds a relation of a Python file stored
\* with the second of two symbol rows of one name, a relation of a Python
\* file stored without an originating symbol, and a relation of a
\* JavaScript file that declares a symbol.
C21_Witness ==
    /\ pc = "done"
    /\ \E r \in committed.relations, s \in committed.symbols, t \in committed.symbols :
          /\ r.src_symbol_id = s.id /\ s.file_id = r.file_id
          /\ t.file_id = s.file_id /\ t.name = s.name /\ t.id < s.id
    /\ \E r \in committed.relations, f \in committed.files :
          r.file_id = f.id /\ f.language = "python" /\ r.src_symbol_id = Null
    /\ \E r \in committed.relations, f \in committed.files, s \in committed.symbols :
          /\ r.file_id = f.id /\ f.language = "javascript" /\ s.file_id = f.id
          /\ r.src_symbol_id = Null

====
